---- MODULE Spec2Model ----
(***************************************************************************)
(* Wallet ledger and transaction state machine of the FiCore mobile        *)
(* backend: the purchase handlers of blueprints/vas_purchase.py            *)
(* (buy_airtime, buy_data), the older handlers of blueprints/vas.py        *)
(* (buy_airtime, buy_bill) and the Monnify funding webhook                 *)
(* (monnify_webhook).  Every request is served by its own handler; the     *)
(* handlers share the MongoDB collections vas_wallets, vas_transactions    *)
(* and corporate_revenue.  One step of a handler is one database           *)
(* operation or one upstream provider call, so the steps of concurrent     *)
(* handlers interleave exactly where gunicorn workers can interleave.      *)
(***************************************************************************)
EXTENDS Integers, Sequences, FiniteSets, TLC

\* ------------------------------------------------------------------ bounds
\* requests served in one run
MaxRequests == 2
\* distinct payment references the funding provider uses in one run
NumExtRefs == 1
\* emergency pricing tags on file
NumTags == 2

\* ------------------------------------------------------- program constants
VAS_TRANSACTION_FEE == 30
PlanTolerance == 50
MinAirtimeAmount == 100
\* the face amount of every purchase, and the balance the wallet starts with
FaceAmount == MinAirtimeAmount
InitBalance == MinAirtimeAmount

\* gunicorn runs WEB_CONCURRENCY (default 2) sync workers: so many requests
\* are in service at the same time
Workers == 2
\* one handler per request, numbered in the order the requests arrive
Handlers == 1..MaxRequests
\* transaction references Monnify assigns to reserved-account payments
ExtRefs == 101..(100 + NumExtRefs)
\* value of a transactionReference field that is absent (None)
NoRef == 0

TagIds == 1..NumTags

PurchaseKinds == {"airtime", "data", "airtime_v1"}

VARIABLES balance, txns, revenue, nextId, premium, pc, req, loc, resp, applied, tags,
          plan_mismatch_logs, validated

vars == <<balance, txns, revenue, nextId, premium, pc, req, loc, resp, applied, tags,
          plan_mismatch_logs, validated>>

\* ------------------------------------------------------------ pure helpers

\* the reason texts the handlers write, as the list of their parts
InProgress == <<"Transaction in progress">>
NoReason == <<>>

\* key_terms of check_plan_name_similarity
KeyTerms == {"1gb", "2gb", "500mb", "230mb", "daily", "weekly", "monthly", "7 days", "30 days"}

\* a plan name is modelled by the set of tokens it contains; 'Unknown' is
\* the name validate_delivered_plan uses when the response has no description
UnknownName == {"unknown"}

Abs(x) == IF x < 0 THEN -x ELSE x

Min(S) == CHOOSE x \in S : \A y \in S : x <= y

\* a comparison that takes a delivered name without key terms as similar
check_plan_name_similarity_Lenient(requested_name, delivered_name) ==
    LET requested_terms == requested_name \cap KeyTerms
        delivered_terms == delivered_name \cap KeyTerms
    IN  delivered_terms = {} \/ (requested_terms \cap delivered_terms) # {}

check_plan_name_similarity(requested_name, delivered_name) ==
    LET requested_terms == requested_name \cap KeyTerms
        delivered_terms == delivered_name \cap KeyTerms
    IN  (requested_terms \cap delivered_terms) # {}

\* an upstream response: which of the fields validate_delivered_plan reads
\* are present, and their values
NoResponse == [empty |-> TRUE, hasDescription |-> FALSE, description |-> {},
               hasVendAmount |-> FALSE, vendAmount |-> 0,
               hasPayableAmount |-> FALSE, payableAmount |-> 0]

\* a validation that compares the amounts only
validate_delivered_plan_AmountOnly(api_response, requested_plan_name, requested_amount) ==
    /\ ~api_response.empty
    /\ Abs((IF api_response.hasVendAmount THEN api_response.vendAmount
            ELSE IF api_response.hasPayableAmount THEN api_response.payableAmount ELSE 0)
           - requested_amount) <= PlanTolerance

validate_delivered_plan(api_response, requested_plan_name, requested_amount) ==
    IF api_response.empty THEN FALSE
    ELSE LET delivered_plan_name == IF api_response.hasDescription
                                    THEN api_response.description ELSE UnknownName
             delivered_amount == IF api_response.hasVendAmount THEN api_response.vendAmount
                                 ELSE IF api_response.hasPayableAmount
                                      THEN api_response.payableAmount ELSE 0
             amounts_match == Abs(delivered_amount - requested_amount) <= PlanTolerance
         IN  amounts_match /\ check_plan_name_similarity(requested_plan_name, delivered_plan_name)

\* what call_monnify_data returns on success: description, vendAmount and
\* payableAmount are always present
MonnifyDataResponses(plan, amount) ==
    { [empty |-> FALSE, hasDescription |-> TRUE, description |-> d,
       hasVendAmount |-> TRUE, vendAmount |-> amount,
       hasPayableAmount |-> TRUE, payableAmount |-> amount] : d \in {plan, {"500mb"}} }

\* what call_peyflex_data returns on success: the provider's raw JSON, or the
\* dict it builds itself from the response text, which has no description
\* and no amount
PeyflexDataResponses(plan, amount) ==
    { [empty |-> FALSE, hasDescription |-> FALSE, description |-> {},
       hasVendAmount |-> FALSE, vendAmount |-> 0,
       hasPayableAmount |-> FALSE, payableAmount |-> 0],
      [empty |-> FALSE, hasDescription |-> TRUE, description |-> plan,
       hasVendAmount |-> FALSE, vendAmount |-> 0,
       hasPayableAmount |-> TRUE, payableAmount |-> amount] }

\* data plan ids of one run.  Monnify's catalogue lists a product code in its
\* documented format and one in a format of its own, and so does Peyflex's
\* plan list; one id is listed by neither provider
MonnifyProducts == {"MTN_DATA_1GB_30D", "M77"}
PeyflexPlans == {"mtn_1gb_30days", "p77"}
PlanIds == MonnifyProducts \cup PeyflexPlans \cup {"x99"}

\* the plan code of a purchase request that carries none, or that was not sent
NoCode == "none"

\* the codes a provider lists
CodesOf(provider) == IF provider = "monnify" THEN MonnifyProducts ELSE PeyflexPlans

\* validate_data_plan_exists: the id is in the list of at least one provider
validate_data_plan_exists(plan_id) == plan_id \in MonnifyProducts \cup PeyflexPlans

\* plan_id.upper().startswith(('MTN_', ...)): the same ids satisfy
\* plan_id.lower().startswith(('mtn_', ...))
HasNetworkPrefix(plan_id) == plan_id \in {"MTN_DATA_1GB_30D", "mtn_1gb_30days"}

\* translation_maps[from_to].get(plan_code)
ExactTranslation(plan_code, to_provider) ==
    IF to_provider = "monnify" /\ plan_code = "mtn_1gb_30days" THEN "MTN_DATA_1GB_30D"
    ELSE IF to_provider = "peyflex" /\ plan_code = "MTN_DATA_1GB_30D" THEN "mtn_1gb_30days"
    ELSE NoCode

\* re.search(r'(\d+(?:\.\d+)?)(mb|gb)', plan_lower) finds a data volume
HasVolume(plan_code) == plan_code \in {"MTN_DATA_1GB_30D", "mtn_1gb_30days"}

\* translate_plan_code_by_pattern for network MTN: the target format built
\* from the volume and the validity (30 days when none is found), or the
\* code itself when it names no volume
translate_plan_code_by_pattern(plan_code, to_provider) ==
    IF ~HasVolume(plan_code) THEN plan_code
    ELSE IF to_provider = "monnify" THEN "MTN_DATA_1GB_30D" ELSE "mtn_1gb_30days"

\* translate_plan_code: the exact table, then the pattern, then the code itself
translate_plan_code(plan_code, to_provider) ==
    IF ExactTranslation(plan_code, to_provider) # NoCode
    THEN ExactTranslation(plan_code, to_provider)
    ELSE translate_plan_code_by_pattern(plan_code, to_provider)

\* validate_plan_for_provider(plan_id, provider, network)['translated_code']:
\* an id with a network prefix is taken as the provider's own, in either case
validate_plan_for_provider(plan_id, provider) ==
    IF HasNetworkPrefix(plan_id) THEN plan_id ELSE translate_plan_code(plan_id, provider)

\* the product call_monnify_data vends: the one whose code is the plan id or
\* its translation; NoCode when the catalogue has neither, and the call raises
\* before any vend
MonnifyProductFor(plan_id) ==
    IF plan_id \in MonnifyProducts THEN plan_id
    ELSE IF validate_plan_for_provider(plan_id, "monnify") \in MonnifyProducts \ {plan_id}
         THEN validate_plan_for_provider(plan_id, "monnify")
         ELSE NoCode

\* the plan_code of the payload call_peyflex_data posts
PeyflexPlanCode(plan_id) == validate_plan_for_provider(plan_id, "peyflex")

\* the pricing oracle calculate_vas_price, consumed as an opaque collaborator
PricingResults(amount) ==
    { [selling_price |-> amount, cost_price |-> amount - 1, margin |-> 1],
      [selling_price |-> amount - 5, cost_price |-> amount - 1, margin |-> 0],
      [selling_price |-> amount, cost_price |-> (amount * 159) \div 100, margin |-> 0] }

\* a data price whose cost comes from a pricing engine and can be above
\* the plan amount
DataPricingResults_Engine(amount) ==
    { [selling_price |-> amount, cost_price |-> amount, margin |-> 0],
      [selling_price |-> amount, cost_price |-> (amount * 160) \div 100, margin |-> 0] }

\* buy_data prices a plan at face value: selling_price = amount,
\* cost_price = amount, margin = 0.0
DataPricingResults(amount) ==
    { [selling_price |-> amount, cost_price |-> amount, margin |-> 0] }

\* normal_expected_cost in hundredths: amount * 0.99 for airtime, amount for data
NormalExpectedCost(kind, amount) == IF kind = "data" THEN amount * 100 ELSE amount * 99

\* a detection at the full emergency multiplier, without the 80% factor
is_emergency_pricing_FullMultiplier(kind, amount, cost_price) ==
    cost_price * 1000 >= NormalExpectedCost(kind, amount) * 2 * 10

\* cost_price >= normal_expected_cost * emergency_multiplier * 0.8, with
\* emergency_multiplier = 2.0, in thousandths
is_emergency_pricing(kind, amount, cost_price) ==
    cost_price * 1000 >= NormalExpectedCost(kind, amount) * 2 * 8

\* HMAC-SHA512 as a keyed function that is injective in key and message
SecretKey == "MONNIFY_SECRET_KEY"
OtherKey == "other key"
Hmac(key, message) == <<key, message>>
NoSignature == <<"", "">>

TxnType(kind) ==
    CASE kind \in {"airtime", "airtime_v1"} -> "AIRTIME"
      [] kind = "data" -> "DATA"
      [] kind = "bill" -> "BILL"
      [] OTHER -> "WALLET_FUNDING"

\* status the purchase handlers give the row they open
InitialStatus(kind) == IF kind = "airtime_v1" THEN "PENDING" ELSE "FAILED"
InitialReason(kind) == IF kind = "airtime_v1" THEN NoReason ELSE InProgress

\* unique index of vas_transactions on transactionReference: can an insert
\* of a row with this reference raise DuplicateKeyError.  A reference that is
\* absent collides with another absent one unless the index is sparse, and
\* the index definition does not say: both outcomes are possible.
DuplicateKey(rows, ref) ==
    IF \E i \in DOMAIN rows : rows[i].ref = ref
    THEN IF ref = NoRef THEN BOOLEAN ELSE {TRUE}
    ELSE {FALSE}

\* ------------------------------------------------------------------- state

NoReq == [kind |-> "none", action |-> 0, amount |-> 0, selling_price |-> 0,
          margin |-> 0, plan |-> {}, signature |-> NoSignature,
          event |-> [eventType |-> "", paymentStatus |-> "", completed |-> FALSE],
          paid |-> FALSE, ref |-> NoRef, amountPaid |-> 0, account |-> FALSE,
          isAdmin |-> FALSE, dryRun |-> FALSE, cost_price |-> 0, plan_id |-> NoCode]

NoLoc == [wallet |-> 0, txn |-> 0, request_id |-> NoRef, success |-> FALSE,
          provider |-> "monnify", calls |-> <<>>, error |-> <<>>,
          status |-> "none", wrote |-> FALSE, scan |-> <<>>, results |-> <<>>,
          ambiguous |-> FALSE, is_emergency_pricing |-> FALSE]

NoResp == [code |-> 0, message |-> "none"]

\* a document of emergency_pricing_tags; credits counts the compensating
\* credits issued for it
NoTag == [status |-> "none", overage |-> 0, credits |-> 0, transaction |-> NoRef]

\* one call of validate_delivered_plan: its arguments and, once it has
\* returned, plan_match_result['matches']
NoValidation == [api_response |-> NoResponse, requested_plan_name |-> {},
                 requested_amount |-> 0, returned |-> FALSE, matches |-> FALSE]

Init ==
    /\ balance = InitBalance
    /\ txns = <<>>
    /\ revenue = <<>>
    /\ nextId = 1
    /\ premium \in BOOLEAN
    /\ pc = [h \in Handlers |-> "idle"]
    /\ req = [h \in Handlers |-> NoReq]
    /\ loc = [h \in Handlers |-> NoLoc]
    /\ resp = [h \in Handlers |-> NoResp]
    /\ applied = 0
    /\ tags = [t \in TagIds |-> NoTag]
    /\ plan_mismatch_logs = <<>>
    /\ validated = NoValidation

Finish(h, code, message) ==
    /\ pc' = [pc EXCEPT ![h] = "done"]
    /\ resp' = [resp EXCEPT ![h] = [code |-> code, message |-> message]]

InService == {h \in Handlers : pc[h] \notin {"idle", "done", "stopped"}}

\* a worker is free to take request h, the next one to arrive
Arrives(h) ==
    /\ pc[h] = "idle"
    /\ \A g \in Handlers : g < h => pc[g] # "idle"
    /\ Cardinality(InService) < Workers

\* --------------------------------------------------- purchase handlers
\* buy_airtime and buy_data of vas_purchase.py, buy_airtime of vas.py

Row(h) == txns[loc[h].txn]

SetLoc(h, new) == loc' = [loc EXCEPT ![h] = new]

\* the find_one of check_pending_transaction; it is passed the selling price
\* and compares it with the row's 'amount'
check_pending_transaction(transaction_type, amount) ==
    \E i \in DOMAIN txns : /\ txns[i].type = transaction_type
                           /\ txns[i].amount = amount
                           /\ txns[i].status = "PENDING"

\* the request arrives: validation of the body, the pricing oracle and the
\* duplicate check
BeginPurchase(h) ==
    /\ Arrives(h)
    /\ \E kind \in PurchaseKinds :
       \E pr \in IF kind = "data"
                 THEN DataPricingResults(FaceAmount)
                 ELSE PricingResults(FaceAmount) :
       \E action \in {h} \cup {req[g].action : g \in {x \in Handlers : req[x].kind = kind}} :
       \E plan_id \in IF kind = "data" THEN PlanIds ELSE {NoCode} :
          /\ req' = [req EXCEPT ![h] = [NoReq EXCEPT !.kind = kind, !.action = action,
                                                     !.amount = FaceAmount,
                                                     !.selling_price = pr.selling_price,
                                                     !.margin = pr.margin,
                                                     !.cost_price = pr.cost_price,
                                                     !.plan = IF kind = "data" THEN {"1gb"} ELSE {},
                                                     !.plan_id = plan_id]]
          /\ SetLoc(h, [loc[h] EXCEPT !.is_emergency_pricing =
                                         /\ kind = "data" => validate_data_plan_exists(plan_id)
                                         /\ is_emergency_pricing(kind, FaceAmount, pr.cost_price)])
          /\ IF kind = "data" /\ ~validate_data_plan_exists(plan_id)
             THEN Finish(h, 400, "Data plan validation failed")
             ELSE IF check_pending_transaction(TxnType(kind), pr.selling_price)
             THEN Finish(h, 409, "Duplicate transaction detected")
             ELSE /\ pc' = [pc EXCEPT ![h] = "wallet"]
                  /\ UNCHANGED resp
    /\ UNCHANGED <<balance, txns, revenue, nextId, premium, applied>>
    /\ UNCHANGED <<tags, plan_mismatch_logs, validated>>

\* wallet = vas_wallets.find_one(...) and the balance pre-check
ReadWallet(h) ==
    /\ pc[h] = "wallet"
    /\ SetLoc(h, [loc[h] EXCEPT !.wallet = balance])
    /\ IF balance < req[h].selling_price
       THEN Finish(h, 400, "Insufficient wallet balance")
       ELSE /\ pc' = [pc EXCEPT ![h] = "insert"]
            /\ UNCHANGED resp
    /\ UNCHANGED <<balance, txns, revenue, nextId, premium, req, applied>>
    /\ UNCHANGED <<tags, plan_mismatch_logs, validated>>

\* generate_request_id and vas_transactions.insert_one
OpenTransaction(h) ==
    /\ pc[h] = "insert"
    /\ nextId' = nextId + 1
    /\ \E refused \in DuplicateKey(txns, nextId) :
       IF refused
       THEN /\ Finish(h, 500, "Failed to purchase")
            /\ UNCHANGED <<txns, loc>>
       ELSE /\ txns' = Append(txns, [ref |-> nextId, requestId |-> nextId, reference |-> NoRef,
                                     type |-> TxnType(req[h].kind), amount |-> req[h].amount,
                                     status |-> InitialStatus(req[h].kind),
                                     failureReason |-> InitialReason(req[h].kind),
                                     errorMessage |-> NoReason,
                                     provider |-> "none", providerConfirmed |-> FALSE,
                                     owner |-> h,
                                     monnifyTransactionReference |-> NoRef])
            /\ SetLoc(h, [loc[h] EXCEPT !.txn = Len(txns) + 1, !.request_id = nextId])
            /\ pc' = [pc EXCEPT ![h] = "primary"]
            /\ UNCHANGED resp
    /\ UNCHANGED <<balance, revenue, premium, req, applied>>
    /\ UNCHANGED <<tags, plan_mismatch_logs, validated>>

\* an orchestrator that takes every returned response as a success
Accepted_Unvalidated(h, api_response) == TRUE

\* plan_match_result['matches'] for the response of a data purchase; an
\* airtime response is not validated
Matches(h, api_response) ==
    req[h].kind = "data" => validate_delivered_plan(api_response, req[h].plan, req[h].amount)

\* does the orchestrator take what the provider returned as a success
Accepted(h, api_response) ==
    IF req[h].kind = "data"
    THEN validate_delivered_plan(api_response, req[h].plan, req[h].amount)
    ELSE TRUE

\* names bound in the module scope of vas_purchase.py, where
\* log_plan_mismatch is defined; the handlers' mongo is a parameter of
\* init_vas_purchase_blueprint and is not among them
ModuleNames == {"Blueprint", "request", "jsonify", "datetime", "timedelta", "ObjectId",
                "os", "requests", "uuid", "json", "time", "get_pricing_engine",
                "calculate_vas_price", "tag_emergency_transaction",
                "create_user_notification", "push_balance_update",
                "call_monnify_auth", "call_monnify_bills_api"}

\* plan_mismatch_logs after log_plan_mismatch(user_id, provider, details):
\* mongo.db.plan_mismatch_logs.insert_one is inside `try`, and a name that
\* is not bound raises into `except Exception`, which returns None
log_plan_mismatch(logs, provider, transaction_id) ==
    IF "mongo" \in ModuleNames
    THEN Append(logs, [provider |-> provider, transaction_id |-> transaction_id,
                       severity |-> "HIGH", requires_investigation |-> TRUE,
                       requires_refund |-> TRUE])
    ELSE logs

\* one provider call of a purchase: plan_code is the plan code of the purchase
\* request sent upstream, NoCode when none was sent or it carries none;
\* api_response is what the call returned, NoResponse when it raised
Call(provider, returned, matches, accepted, plan_code, api_response) ==
    [provider |-> provider, returned |-> returned, matches |-> matches, accepted |-> accepted,
     plan_code |-> plan_code, api_response |-> api_response]

\* a handler that debits whatever the providers answered
AfterProviders_AlwaysDebit(success) == "debit"

\* if not success: fail the transaction and return; otherwise go on to the debit
AfterProviders(success) == IF success THEN "debit" ELSE "failed"

\* the try block around call_monnify_airtime / call_monnify_data
CallPrimary(h) ==
    /\ pc[h] = "primary"
    /\ LET code == IF req[h].kind = "data" THEN MonnifyProductFor(req[h].plan_id) ELSE NoCode
           \* call_monnify_data found no product and raises before the vend
           skipped == req[h].kind = "data" /\ code = NoCode
       IN  \/ \* the call raises: no product, the vend failed, or it was
              \* IN_PROGRESS and the one requery did not report SUCCESS
              \E in_progress \in IF req[h].kind = "airtime_v1" \/ skipped
                                 THEN {FALSE} ELSE BOOLEAN :
                 /\ SetLoc(h, [loc[h] EXCEPT !.calls = Append(@, Call("monnify", FALSE, FALSE, FALSE, code, NoResponse)),
                                             !.error = <<"monnify">>,
                                             !.ambiguous = in_progress])
                 /\ pc' = [pc EXCEPT ![h] = "fallback"]
           \/ \* the call returns a response
              /\ ~skipped
              /\ \E r \in IF req[h].kind = "data"
                          THEN MonnifyDataResponses(req[h].plan, req[h].amount)
                          ELSE {NoResponse} :
                    IF Accepted(h, r)
                    THEN /\ SetLoc(h, [loc[h] EXCEPT !.calls = Append(@, Call("monnify", TRUE, Matches(h, r), TRUE, code, r)),
                                                     !.success = TRUE])
                         /\ pc' = [pc EXCEPT ![h] = AfterProviders(TRUE)]
                    ELSE /\ SetLoc(h, [loc[h] EXCEPT !.calls = Append(@, Call("monnify", TRUE, Matches(h, r), FALSE, code, r)),
                                                     !.error = <<"monnify">>])
                         /\ pc' = [pc EXCEPT ![h] = "fallback"]
    /\ plan_mismatch_logs' =
          IF loc'[h].calls[Len(loc'[h].calls)].returned /\ ~loc'[h].success
          THEN log_plan_mismatch(plan_mismatch_logs, "monnify", loc[h].txn)
          ELSE plan_mismatch_logs
    /\ UNCHANGED <<balance, txns, revenue, nextId, premium, req, resp, applied>>
    /\ UNCHANGED <<tags, validated>>

\* the nested try block around call_peyflex_airtime / call_peyflex_data
CallFallback(h) ==
    /\ pc[h] = "fallback"
    /\ LET code == IF req[h].kind = "data" THEN PeyflexPlanCode(req[h].plan_id) ELSE NoCode
       IN  \/ /\ SetLoc(h, [loc[h] EXCEPT !.calls = Append(@, Call("peyflex", FALSE, FALSE, FALSE, code, NoResponse)),
                                          !.error = <<"monnify", "peyflex">>])
              /\ pc' = [pc EXCEPT ![h] = AfterProviders(FALSE)]
           \/ \E r \in IF req[h].kind = "data"
                       THEN PeyflexDataResponses(req[h].plan, req[h].amount)
                       ELSE {NoResponse} :
                 IF Accepted(h, r)
                 THEN /\ SetLoc(h, [loc[h] EXCEPT !.calls = Append(@, Call("peyflex", TRUE, Matches(h, r), TRUE, code, r)),
                                                  !.success = TRUE, !.provider = "peyflex"])
                      /\ pc' = [pc EXCEPT ![h] = AfterProviders(TRUE)]
                 ELSE /\ SetLoc(h, [loc[h] EXCEPT !.calls = Append(@, Call("peyflex", TRUE, Matches(h, r), FALSE, code, r)),
                                                  !.error = <<"monnify", "peyflex">>])
                      /\ pc' = [pc EXCEPT ![h] = AfterProviders(FALSE)]
    /\ plan_mismatch_logs' =
          IF loc'[h].calls[Len(loc'[h].calls)].returned /\ ~loc'[h].success
          THEN log_plan_mismatch(plan_mismatch_logs, "peyflex", loc[h].txn)
          ELSE plan_mismatch_logs
    /\ UNCHANGED <<balance, txns, revenue, nextId, premium, req, resp, applied>>
    /\ UNCHANGED <<tags, validated>>

\* a failure branch that answers 500 and leaves the row as it was opened
FailTransaction_KeepReason(h) ==
    /\ pc[h] = "failed"
    /\ Finish(h, 500, "Purchase failed")
    /\ UNCHANGED <<balance, txns, revenue, nextId, premium, req, loc, applied>>
    /\ UNCHANGED <<tags, plan_mismatch_logs, validated>>

\* if not success: update the row to FAILED with the error message
FailTransaction(h) ==
    /\ pc[h] = "failed"
    /\ txns' = [txns EXCEPT ![loc[h].txn] =
                   IF req[h].kind = "airtime_v1"
                   THEN [@ EXCEPT !.status = "FAILED", !.errorMessage = loc[h].error]
                   ELSE [@ EXCEPT !.status = "FAILED", !.failureReason = loc[h].error]]
    /\ Finish(h, 500, "Purchase failed")
    /\ UNCHANGED <<balance, revenue, nextId, premium, req, loc, applied>>
    /\ UNCHANGED <<tags, plan_mismatch_logs, validated>>

\* a debit of the face amount instead of the selling price
DebitWallet_FaceAmount(h) ==
    /\ pc[h] = "debit"
    /\ balance' = loc[h].wallet - req[h].amount
    /\ applied' = applied - req[h].amount
    /\ SetLoc(h, [loc[h] EXCEPT !.wrote = TRUE])
    /\ pc' = [pc EXCEPT ![h] = "commit"]
    /\ UNCHANGED <<txns, revenue, nextId, premium, req, resp>>
    /\ UNCHANGED <<tags, plan_mismatch_logs, validated>>

\* new_balance = wallet['balance'] - total_amount, written with $set
DebitWallet(h) ==
    /\ pc[h] = "debit"
    /\ balance' = loc[h].wallet - req[h].selling_price
    /\ applied' = applied - req[h].selling_price
    /\ SetLoc(h, [loc[h] EXCEPT !.wrote = TRUE])
    /\ pc' = [pc EXCEPT ![h] = "commit"]
    /\ UNCHANGED <<txns, revenue, nextId, premium, req, resp>>
    /\ UNCHANGED <<tags, plan_mismatch_logs, validated>>

\* update the row to SUCCESS; vas_purchase.py also unsets failureReason
CommitTransaction(h) ==
    /\ pc[h] = "commit"
    /\ txns' = [txns EXCEPT ![loc[h].txn] =
                   [@ EXCEPT !.status = "SUCCESS", !.provider = loc[h].provider,
                             !.failureReason = NoReason]]
    /\ pc' = [pc EXCEPT ![h] = "revenue"]
    /\ UNCHANGED <<balance, revenue, nextId, premium, req, loc, resp, applied>>
    /\ UNCHANGED <<tags, plan_mismatch_logs, validated>>

\* emergency_pricing_tags after tag_emergency_transaction(db, transaction_id,
\* cost_price, ...): a tag PENDING_RECOVERY for the transaction, with the
\* overage of the cost over the normal expected cost
tag_emergency_transaction(kind, transaction_id, amount, cost_price) ==
    LET free == {t \in TagIds : tags[t].status = "none"}
    IN  IF free = {} THEN tags
        ELSE [tags EXCEPT ![Min(free)] =
                 [status |-> "PENDING_RECOVERY",
                  overage |-> cost_price - NormalExpectedCost(kind, amount) \div 100,
                  credits |-> 0, transaction |-> transaction_id]]

\* if is_emergency_pricing: tag_emergency_transaction(...) inside its own
\* try, whose except lets the purchase go on without a tag
TagEmergency(h) ==
    IF loc[h].is_emergency_pricing
    THEN \/ tags' = tag_emergency_transaction(req[h].kind, loc[h].request_id,
                                              req[h].amount, req[h].cost_price)
         \/ tags' = tags
    ELSE tags' = tags

\* parameters of generate_retention_description(base_description,
\* savings_message, discount_applied)
RetentionParams == 3

\* arguments the handler passes to it: buy_airtime of vas.py passes
\* user_tier as well
RetentionArgs(kind) == IF kind = "airtime_v1" THEN 4 ELSE 3

\* the retention description, the expense entry and the response.  A call
\* with one argument too many raises TypeError, which the handler's outer
\* `except Exception` answers with 500
CompletePurchase(h) ==
    IF RetentionArgs(req[h].kind) = RetentionParams
    THEN Finish(h, 200, "Purchased successfully")
    ELSE Finish(h, 500, "Failed to purchase")

\* a handler that records the margin whatever it is
RecordRevenue_AnyMargin(h) ==
    /\ pc[h] = "revenue"
    /\ revenue' = Append(revenue, [type |-> "VAS_MARGIN", amount |-> req[h].margin,
                                   relatedTransaction |-> loc[h].request_id])
    /\ TagEmergency(h)
    /\ CompletePurchase(h)
    /\ UNCHANGED <<balance, txns, nextId, premium, req, loc, applied>>
    /\ UNCHANGED <<plan_mismatch_logs, validated>>

\* corporate_revenue.insert_one when margin > 0, the emergency tag, then the
\* expense entry and the response
RecordRevenue(h) ==
    /\ pc[h] = "revenue"
    /\ revenue' = IF req[h].margin > 0
                  THEN Append(revenue, [type |-> "VAS_MARGIN", amount |-> req[h].margin,
                                        relatedTransaction |-> loc[h].request_id])
                  ELSE revenue
    /\ TagEmergency(h)
    /\ CompletePurchase(h)
    /\ UNCHANGED <<balance, txns, nextId, premium, req, loc, applied>>
    /\ UNCHANGED <<plan_mismatch_logs, validated>>

Purchase(h) ==
    \/ BeginPurchase(h)
    \/ ReadWallet(h)
    \/ OpenTransaction(h)
    \/ CallPrimary(h)
    \/ CallFallback(h)
    \/ FailTransaction(h)
    \/ DebitWallet(h)
    \/ CommitTransaction(h)
    \/ RecordRevenue(h)

\* ------------------------------------------------------ bill payments
\* buy_bill of vas.py: the vend comes first, the row is inserted afterwards

\* wallet = vas_wallets.find_one(...) and the balance check
BeginBill(h) ==
    /\ Arrives(h)
    /\ req' = [req EXCEPT ![h] = [NoReq EXCEPT !.kind = "bill", !.action = h,
                                               !.amount = FaceAmount,
                                               !.selling_price = FaceAmount]]
    /\ SetLoc(h, [loc[h] EXCEPT !.wallet = balance])
    /\ IF balance < FaceAmount
       THEN Finish(h, 402, "Insufficient wallet balance")
       ELSE /\ pc' = [pc EXCEPT ![h] = "vend"]
            /\ UNCHANGED resp
    /\ UNCHANGED <<balance, txns, revenue, nextId, premium, applied>>
    /\ UNCHANGED <<tags, plan_mismatch_logs, validated>>

\* vendStatus values after the vend and the single requery; 'PENDING' is the
\* default when the field is absent
VendStatuses == {"SUCCESS", "FAILED", "IN_PROGRESS", "PENDING"}

\* call_monnify_bills_api('vend'), the requery when IN_PROGRESS
BillVend(h) ==
    /\ pc[h] = "vend"
    /\ \/ /\ Finish(h, 500, "Bill payment failed")
          /\ UNCHANGED <<loc, nextId>>
       \/ \E final_status \in VendStatuses : \E ref \in {nextId, NoRef} :
             /\ SetLoc(h, [loc[h] EXCEPT !.status = final_status, !.request_id = ref])
             /\ nextId' = IF ref = NoRef THEN nextId ELSE nextId + 1
             /\ pc' = [pc EXCEPT ![h] = "bill_insert"]
             /\ UNCHANGED resp
    /\ UNCHANGED <<balance, txns, revenue, premium, req, applied>>
    /\ UNCHANGED <<tags, plan_mismatch_logs, validated>>

\* vas_transactions.insert_one(transaction) with the provider's reference
BillInsert(h) ==
    /\ pc[h] = "bill_insert"
    /\ \E refused \in DuplicateKey(txns, loc[h].request_id) :
       IF refused
       THEN /\ Finish(h, 500, "Bill payment failed")
            /\ UNCHANGED <<txns, loc>>
       ELSE /\ txns' = Append(txns, [ref |-> loc[h].request_id, requestId |-> NoRef,
                                     reference |-> NoRef, type |-> "BILL",
                                     amount |-> req[h].amount, status |-> loc[h].status,
                                     failureReason |-> NoReason, errorMessage |-> NoReason,
                                     provider |-> "monnify", providerConfirmed |-> FALSE,
                                     owner |-> h,
                                     monnifyTransactionReference |-> NoRef])
            /\ SetLoc(h, [loc[h] EXCEPT !.txn = Len(txns) + 1])
            /\ IF loc[h].status = "SUCCESS"
               THEN /\ pc' = [pc EXCEPT ![h] = "bill_debit"]
                    /\ UNCHANGED resp
               ELSE IF loc[h].status = "FAILED"
                    THEN Finish(h, 400, "Bill payment failed")
                    ELSE Finish(h, 200, "Bill payment is being processed")
    /\ UNCHANGED <<balance, revenue, nextId, premium, req, applied>>
    /\ UNCHANGED <<tags, plan_mismatch_logs, validated>>

\* vas_wallets.update_one with $inc: {balance: -amount}
BillDebit(h) ==
    /\ pc[h] = "bill_debit"
    /\ balance' = balance - req[h].amount
    /\ applied' = applied - req[h].amount
    /\ SetLoc(h, [loc[h] EXCEPT !.wrote = TRUE])
    /\ Finish(h, 200, "Bill payment processed successfully")
    /\ UNCHANGED <<txns, revenue, nextId, premium, req>>
    /\ UNCHANGED <<tags, plan_mismatch_logs, validated>>

Bill(h) ==
    \/ BeginBill(h)
    \/ BillVend(h)
    \/ BillInsert(h)
    \/ BillDebit(h)

\* ----------------------------------------------------- funding webhook
\* monnify_webhook of vas.py with process_reserved_account_funding_inline

\* request ids a purchase handler has passed to Monnify in a vend: Monnify
\* may confirm these with a webhook
MonnifyKnows ==
    {loc[g].request_id : g \in {x \in Handlers : /\ req[x].kind \in PurchaseKinds
                                                 /\ Len(loc[x].calls) >= 1}}

\* eventType, paymentStatus and completed of a delivery; "" is an absent
\* field.  The classic format names the event, the flat format carries the
\* payment status
Event(eventType, paymentStatus, completed) ==
    [eventType |-> eventType, paymentStatus |-> paymentStatus, completed |-> completed]

\* a payment that completed, in the classic format
Successful == Event("SUCCESSFUL_TRANSACTION", "", FALSE)

\* events of a payment that has not completed
Unpaid == {Event("FAILED_TRANSACTION", "", FALSE),
           Event("", "PAID", FALSE),
           Event("", "PENDING", TRUE)}

\* str.upper() on the payment statuses of a run
Upper(s) == IF s = "paid" THEN "PAID" ELSE s

\* a filter that does not look at `completed`
should_process_StatusOnly(event) ==
    \/ event.eventType = "SUCCESSFUL_TRANSACTION"
    \/ Upper(event.paymentStatus) = "PAID"

\* should_process = (event_type == 'SUCCESSFUL_TRANSACTION') or
\*                  (payment_status == 'PAID' and completed)
should_process(event) ==
    \/ event.eventType = "SUCCESSFUL_TRANSACTION"
    \/ (Upper(event.paymentStatus) = "PAID" /\ event.completed)

Body(ref, event, amountPaid, account) ==
    [ref |-> ref, event |-> event, amountPaid |-> amountPaid, account |-> account]

BodyOf(r) == Body(r.ref, r.event, r.amountPaid, r.account)

FundingAmount == FaceAmount + VAS_TRANSACTION_FEE
SmallAmount == VAS_TRANSACTION_FEE - 10

\* the deliveries of one run: body and 'monnify-signature' header.  A
\* payment that would fund the wallet comes correctly signed, signed with
\* another key, with the signature of a different body, or unsigned.
Deliveries(ref) ==
    LET funding == Body(ref, Successful, FundingAmount, TRUE)
    IN  {<<funding, Hmac(SecretKey, funding)>>,
         <<funding, Hmac(OtherKey, funding)>>,
         <<funding, Hmac(SecretKey, Body(ref, Successful, SmallAmount, TRUE))>>,
         <<funding, NoSignature>>}
        \cup {<<b, Hmac(SecretKey, b)>> : b \in {Body(ref, Successful, SmallAmount, TRUE),
                                                 Body(ref, Successful, VAS_TRANSACTION_FEE, TRUE),
                                                 Body(ref, Successful, 0, TRUE),
                                                 Body(ref, Successful, FundingAmount, FALSE),
                                                 Body(ref, Successful, SmallAmount, FALSE),
                                                 Body(ref, Event("", "paid", TRUE), FundingAmount, TRUE)}}
        \cup {<<b, Hmac(SecretKey, b)>> : b \in {Body(ref, e, FundingAmount, TRUE) : e \in Unpaid}}

\* a check that compares the signed message and not the key
SignatureValid_AnyKey(signature, payload) == signature[2] = payload

\* signature == hmac.new(MONNIFY_SECRET_KEY, payload, sha512).hexdigest()
SignatureValid(signature, payload) == signature = Hmac(SecretKey, payload)

\* a lookup that filters on the wrong transaction type
VasMatches_FundingType(ref) ==
    {i \in DOMAIN txns : /\ (txns[i].requestId = ref \/ txns[i].ref = ref)
                         /\ txns[i].type = "WALLET_FUNDING"}

\* find_one({$or: [requestId, transactionReference], type in AIRTIME/DATA})
VasMatches(ref) ==
    {i \in DOMAIN txns : /\ (txns[i].requestId = ref \/ txns[i].ref = ref)
                         /\ txns[i].type \in {"AIRTIME", "DATA"}}


\* the smallest amountPaid for which a pending KYC payment is looked up
KycFee == 70

\* a KYC_VERIFICATION row waiting for its payment, as the verification flow
\* files it: transactionReference t, and the reference m under which Monnify
\* reports the payment
KycRow(t, m) ==
    [ref |-> t, requestId |-> NoRef, reference |-> NoRef, type |-> "KYC_VERIFICATION",
     amount |-> KycFee, status |-> "PENDING_PAYMENT",
     failureReason |-> NoReason, errorMessage |-> NoReason,
     provider |-> "monnify", providerConfirmed |-> FALSE, owner |-> 0,
     monnifyTransactionReference |-> m]

\* pending_txn: the PENDING_PAYMENT KYC_VERIFICATION row found by
\* monnifyTransactionReference or, for a FICORE_QP_ reference, by
\* transactionReference.  Every payment reference of ExtRefs stands for a
\* FICORE_QP_ reference; the deliveries carry no paymentReference
KycMatches(ref) ==
    {i \in DOMAIN txns : /\ txns[i].type = "KYC_VERIFICATION"
                         /\ txns[i].status = "PENDING_PAYMENT"
                         /\ \/ txns[i].monnifyTransactionReference = ref
                            \/ ref \in ExtRefs /\ txns[i].ref = ref}

\* user_id is set: from the account reference, or from the userId of the
\* pending KYC row looked up when amount_paid >= 70
user_id(account, amountPaid, ref) ==
    account \/ (amountPaid >= KycFee /\ KycMatches(ref) # {})

\* an answer that tells the provider the delivery failed
Unprocessed_Rejects(h) == Finish(h, 404, "User not found") /\ UNCHANGED loc

\* neither a user nor a pending transaction was found: the delivery is still
\* answered 200
Unprocessed(h) == Finish(h, 200, "Acknowledged but unprocessed") /\ UNCHANGED loc

\* signature check, event filter, confirmation lookup, extraction and user
\* resolution, up to the first query that depends on them
ReceiveWebhook(h) ==
    /\ Arrives(h)
    /\ \E ref \in ExtRefs \cup MonnifyKnows : \E d \in Deliveries(ref) :
          /\ req' = [req EXCEPT ![h] = [NoReq EXCEPT !.kind = "webhook", !.action = h,
                                                     !.signature = d[2],
                                                     !.event = d[1].event,
                                                     !.ref = ref,
                                                     !.paid = should_process(d[1].event),
                                                     !.amountPaid = d[1].amountPaid,
                                                     !.account = d[1].account]]
          /\ IF ~SignatureValid(d[2], d[1])
             THEN Finish(h, 401, "Invalid signature") /\ UNCHANGED loc
             ELSE IF ~should_process(d[1].event)
             THEN Finish(h, 200, "Webhook received") /\ UNCHANGED loc
             ELSE IF VasMatches(ref) # {}
             THEN /\ SetLoc(h, [loc[h] EXCEPT !.txn = Min(VasMatches(ref)),
                                              !.status = txns[Min(VasMatches(ref))].status])
                  /\ pc' = [pc EXCEPT ![h] = "confirm"]
                  /\ UNCHANGED resp
             ELSE IF d[1].amountPaid <= 0
             THEN Finish(h, 200, "Zero amount ignored") /\ UNCHANGED loc
             ELSE IF ~user_id(d[1].account, d[1].amountPaid, ref)
             THEN Unprocessed(h)
             ELSE /\ pc' = [pc EXCEPT ![h] = "existing"]
                  /\ UNCHANGED <<resp, loc>>
    /\ UNCHANGED <<balance, txns, revenue, nextId, premium, applied>>
    /\ UNCHANGED <<tags, plan_mismatch_logs, validated>>

\* the update of a matched AIRTIME/DATA row: providerConfirmed, and SUCCESS
\* if the row was PENDING when it was read
ConfirmVas(h) ==
    /\ pc[h] = "confirm"
    /\ txns' = [txns EXCEPT ![loc[h].txn] =
                   [@ EXCEPT !.providerConfirmed = TRUE,
                             !.status = IF loc[h].status = "PENDING" THEN "SUCCESS" ELSE @]]
    /\ Finish(h, 200, "VAS confirmation processed")
    /\ UNCHANGED <<balance, revenue, nextId, premium, req, loc, applied>>
    /\ UNCHANGED <<tags, plan_mismatch_logs, validated>>

ReferenceMatches(ref) == {i \in DOMAIN txns : txns[i].reference = ref}

\* existing = find_one({'reference': transaction_reference})
CheckExisting(h) ==
    /\ pc[h] = "existing"
    /\ IF ReferenceMatches(req[h].ref) = {}
       THEN /\ pc' = [pc EXCEPT ![h] = "fund_read"]
            /\ UNCHANGED <<txns, loc, resp>>
       ELSE IF txns[Min(ReferenceMatches(req[h].ref))].status = "SUCCESS"
       THEN /\ Finish(h, 200, "Already processed")
            /\ UNCHANGED <<txns, loc>>
       ELSE /\ txns' = [txns EXCEPT ![Min(ReferenceMatches(req[h].ref))] =
                           [@ EXCEPT !.status = "SUCCESS", !.provider = "monnify"]]
            /\ SetLoc(h, [loc[h] EXCEPT !.status = "update_only"])
            /\ pc' = [pc EXCEPT ![h] = "fund_read"]
            /\ UNCHANGED resp
    /\ UNCHANGED <<balance, revenue, nextId, premium, req, applied>>
    /\ UNCHANGED <<tags, plan_mismatch_logs, validated>>

\* a fee that is charged to premium users as well
DepositFee_NoWaiver == VAS_TRANSACTION_FEE

\* deposit_fee = 0.0 if is_premium else VAS_TRANSACTION_FEE
DepositFee == IF premium THEN 0 ELSE VAS_TRANSACTION_FEE

AmountToCredit(h) == req[h].amountPaid - DepositFee

\* a funding that goes on whatever the amount to credit is
FundRead_NoFloor(h) ==
    /\ pc[h] = "fund_read"
    /\ IF loc[h].status # "update_only" /\ ReferenceMatches(req[h].ref) # {}
       THEN Finish(h, 200, "Already processed") /\ UNCHANGED loc
       ELSE /\ SetLoc(h, [loc[h] EXCEPT !.wallet = balance])
            /\ pc' = [pc EXCEPT ![h] = IF loc[h].status = "update_only"
                                       THEN "fund_credit" ELSE "fund_insert"]
            /\ UNCHANGED resp
    /\ UNCHANGED <<balance, txns, revenue, nextId, premium, req, applied>>
    /\ UNCHANGED <<tags, plan_mismatch_logs, validated>>

\* already_processed check, wallet and user reads, fee and amount_to_credit
FundRead(h) ==
    /\ pc[h] = "fund_read"
    /\ IF loc[h].status # "update_only" /\ ReferenceMatches(req[h].ref) # {}
       THEN Finish(h, 200, "Already processed") /\ UNCHANGED loc
       ELSE /\ SetLoc(h, [loc[h] EXCEPT !.wallet = balance])
            /\ IF AmountToCredit(h) <= 0
               THEN Finish(h, 400, "Amount too small to process")
               ELSE /\ pc' = [pc EXCEPT ![h] = IF loc[h].status = "update_only"
                                               THEN "fund_credit" ELSE "fund_insert"]
                    /\ UNCHANGED resp
    /\ UNCHANGED <<balance, txns, revenue, nextId, premium, req, applied>>
    /\ UNCHANGED <<tags, plan_mismatch_logs, validated>>

\* an insert that swallows DuplicateKeyError and goes on to the credit
FundInsert_IgnoreDuplicate(h) ==
    /\ pc[h] = "fund_insert"
    /\ \E refused \in DuplicateKey(txns, req[h].ref) :
          /\ txns' = IF refused THEN txns
                     ELSE Append(txns, [ref |-> req[h].ref, requestId |-> NoRef,
                                        reference |-> req[h].ref, type |-> "WALLET_FUNDING",
                                        amount |-> AmountToCredit(h), status |-> "SUCCESS",
                                        failureReason |-> NoReason, errorMessage |-> NoReason,
                                        provider |-> "monnify", providerConfirmed |-> FALSE,
                                        owner |-> h,
                                     monnifyTransactionReference |-> NoRef])
          /\ SetLoc(h, [loc[h] EXCEPT !.txn = IF refused THEN 0 ELSE Len(txns) + 1])
    /\ pc' = [pc EXCEPT ![h] = "fund_credit"]
    /\ UNCHANGED <<balance, revenue, nextId, premium, req, resp, applied>>
    /\ UNCHANGED <<tags, plan_mismatch_logs, validated>>

\* an insert into a collection whose transactionReference is not indexed
FundInsert_NoIndex(h) ==
    /\ pc[h] = "fund_insert"
    /\ txns' = Append(txns, [ref |-> req[h].ref, requestId |-> NoRef,
                             reference |-> req[h].ref, type |-> "WALLET_FUNDING",
                             amount |-> AmountToCredit(h), status |-> "SUCCESS",
                             failureReason |-> NoReason, errorMessage |-> NoReason,
                             provider |-> "monnify", providerConfirmed |-> FALSE,
                             owner |-> h,
                                     monnifyTransactionReference |-> NoRef])
    /\ SetLoc(h, [loc[h] EXCEPT !.txn = Len(txns) + 1])
    /\ pc' = [pc EXCEPT ![h] = "fund_credit"]
    /\ UNCHANGED <<balance, revenue, nextId, premium, req, resp, applied>>
    /\ UNCHANGED <<tags, plan_mismatch_logs, validated>>

\* insert_one of the WALLET_FUNDING row; DuplicateKeyError is answered with
\* 'Already processed'
FundInsert(h) ==
    /\ pc[h] = "fund_insert"
    /\ \E refused \in DuplicateKey(txns, req[h].ref) :
       IF refused
       THEN /\ Finish(h, 200, "Already processed")
            /\ UNCHANGED <<txns, loc>>
       ELSE /\ txns' = Append(txns, [ref |-> req[h].ref, requestId |-> NoRef,
                                     reference |-> req[h].ref, type |-> "WALLET_FUNDING",
                                     amount |-> AmountToCredit(h), status |-> "SUCCESS",
                                     failureReason |-> NoReason, errorMessage |-> NoReason,
                                     provider |-> "monnify", providerConfirmed |-> FALSE,
                                     owner |-> h,
                                     monnifyTransactionReference |-> NoRef])
            /\ SetLoc(h, [loc[h] EXCEPT !.txn = Len(txns) + 1])
            /\ pc' = [pc EXCEPT ![h] = "fund_credit"]
            /\ UNCHANGED resp
    /\ UNCHANGED <<balance, revenue, nextId, premium, req, applied>>
    /\ UNCHANGED <<tags, plan_mismatch_logs, validated>>

\* new_balance = wallet['balance'] + amount_to_credit, written with $set
FundCredit(h) ==
    /\ pc[h] = "fund_credit"
    /\ balance' = loc[h].wallet + AmountToCredit(h)
    /\ applied' = applied + AmountToCredit(h)
    /\ SetLoc(h, [loc[h] EXCEPT !.wrote = TRUE])
    /\ pc' = [pc EXCEPT ![h] = "fund_revenue"]
    /\ UNCHANGED <<txns, revenue, nextId, premium, req, resp>>
    /\ UNCHANGED <<tags, plan_mismatch_logs, validated>>

\* corporate_revenue.insert_one for the deposit fee, then the 200 response
FundRevenue(h) ==
    /\ pc[h] = "fund_revenue"
    /\ revenue' = IF DepositFee > 0
                  THEN Append(revenue, [type |-> "SERVICE_FEE", amount |-> DepositFee,
                                        relatedTransaction |-> req[h].ref])
                  ELSE revenue
    /\ Finish(h, 200, "Wallet funded successfully")
    /\ UNCHANGED <<balance, txns, nextId, premium, req, loc, applied>>
    /\ UNCHANGED <<tags, plan_mismatch_logs, validated>>

\* the update_one of the wallet raises after the row was inserted: the
\* function's `except Exception` answers 500 and the row stays as inserted
FundAborts(h) ==
    /\ pc[h] = "fund_credit"
    /\ Finish(h, 500, "Processing failed")
    /\ UNCHANGED <<balance, txns, revenue, nextId, premium, req, loc, applied>>
    /\ UNCHANGED <<tags, plan_mismatch_logs, validated>>

Webhook(h) ==
    \/ ReceiveWebhook(h)
    \/ ConfirmVas(h)
    \/ CheckExisting(h)
    \/ FundRead(h)
    \/ FundInsert(h)
    \/ FundCredit(h)
    \/ FundRevenue(h)

\* ------------------------------------------------------ handler stops
\* the handler of a request stops where it is: the worker is killed and no
\* response is sent, or a statement raises and the handler's outer
\* `except Exception` answers 500 without touching the row
Crash(h) ==
    /\ pc[h] \notin {"idle", "done", "stopped"}
    /\ pc' = [pc EXCEPT ![h] = "stopped"]
    /\ \E answered \in BOOLEAN :
          resp' = [resp EXCEPT ![h] = IF answered
                                      THEN [code |-> 500, message |-> "Failed to purchase"]
                                      ELSE NoResp]
    /\ UNCHANGED <<balance, txns, revenue, nextId, premium, req, loc, applied>>
    /\ UNCHANGED <<tags, plan_mismatch_logs, validated>>

\* ------------------------------------------- emergency pricing recovery
\* process_emergency_recovery and trigger_emergency_recovery_job of vas.py;
\* the job they call, process_emergency_recoveries, is modelled from the
\* specification: scan the pending tags, close each by a compare-and-set
\* PENDING_RECOVERY -> completed, compensate when the transition was won

\* the overage of a tagged transaction: emergency cost minus expected cost
Overage == 20

PendingTag == [status |-> "PENDING_RECOVERY", overage |-> Overage, credits |-> 0,
               transaction |-> NoRef]

PendingTags == {t \in TagIds : tags[t].status = "PENDING_RECOVERY"}

\* the tags of S in ascending order
RECURSIVE Ordered(_)
Ordered(S) == IF S = {} THEN <<>> ELSE <<Min(S)>> \o Ordered(S \ {Min(S)})

\* the admin check, the dry run and the start of the job
BeginRecovery(h) ==
    /\ Arrives(h)
    /\ \E isAdmin \in BOOLEAN, dryRun \in BOOLEAN :
          /\ req' = [req EXCEPT ![h] = [NoReq EXCEPT !.kind = "recovery", !.action = h,
                                                     !.isAdmin = isAdmin, !.dryRun = dryRun]]
          /\ IF ~isAdmin
             THEN Finish(h, 403, "Admin access required")
             ELSE IF dryRun
             THEN Finish(h, 200, "Dry run")
             ELSE \E skipped \in BOOLEAN :
                     IF skipped
                     THEN Finish(h, 200, "Recovery job skipped")
                     ELSE /\ pc' = [pc EXCEPT ![h] = "scan"]
                          /\ UNCHANGED resp
    /\ UNCHANGED <<balance, txns, revenue, nextId, premium, loc, applied, tags>>
    /\ UNCHANGED <<plan_mismatch_logs, validated>>

\* the job reads the tags that are pending
ScanTags(h) ==
    /\ pc[h] = "scan"
    /\ SetLoc(h, [loc[h] EXCEPT !.scan = Ordered(PendingTags)])
    /\ pc' = [pc EXCEPT ![h] = "close"]
    /\ UNCHANGED <<balance, txns, revenue, nextId, premium, req, resp, applied, tags>>
    /\ UNCHANGED <<plan_mismatch_logs, validated>>

\* a close that does not compare: the run trusts its scan
CompareAndSet_Blind(t) == TRUE

\* update_one({_id: t, status: PENDING_RECOVERY}, {$set: {status: completed}})
\* modified a document
CompareAndSet(t) == tags[t].status = "PENDING_RECOVERY"

\* the next scanned tag is closed; the run that wins the transition goes on
\* to compensate, a run that loses it skips the tag
CloseTag(h) ==
    /\ pc[h] = "close"
    /\ loc[h].scan # <<>>
    /\ LET t == Head(loc[h].scan)
       IN  IF CompareAndSet(t)
           THEN /\ tags' = [tags EXCEPT ![t].status = "completed"]
                /\ pc' = [pc EXCEPT ![h] = "compensate"]
                /\ UNCHANGED loc
           ELSE /\ SetLoc(h, [loc[h] EXCEPT !.scan = Tail(@),
                                            !.results = Append(@, [tag |-> t, status |-> "skipped"])])
                /\ UNCHANGED <<tags, pc>>
    /\ UNCHANGED <<balance, txns, revenue, nextId, premium, req, resp, applied>>
    /\ UNCHANGED <<plan_mismatch_logs, validated>>

\* the compensating credit of the tag's overage
Compensate(h) ==
    /\ pc[h] = "compensate"
    /\ LET t == Head(loc[h].scan)
       IN  /\ balance' = balance + tags[t].overage
           /\ applied' = applied + tags[t].overage
           /\ tags' = [tags EXCEPT ![t].credits = @ + 1]
           /\ SetLoc(h, [loc[h] EXCEPT !.scan = Tail(@),
                                       !.results = Append(@, [tag |-> t, status |-> "completed"])])
    /\ pc' = [pc EXCEPT ![h] = "close"]
    /\ UNCHANGED <<txns, revenue, nextId, premium, req, resp>>
    /\ UNCHANGED <<plan_mismatch_logs, validated>>

\* the endpoint answers with the job's result
ReportRecovery(h) ==
    /\ pc[h] = "close"
    /\ loc[h].scan = <<>>
    /\ \E completed \in BOOLEAN :
          IF completed
          THEN Finish(h, 200, "Recovery job completed")
          ELSE Finish(h, 500, "Recovery job failed")
    /\ UNCHANGED <<balance, txns, revenue, nextId, premium, req, loc, applied, tags>>
    /\ UNCHANGED <<plan_mismatch_logs, validated>>

Recovery(h) ==
    \/ BeginRecovery(h)
    \/ ScanTags(h)
    \/ CloseTag(h)
    \/ Compensate(h)
    \/ ReportRecovery(h)

\* push_balance_update(user_id, {...}) raises between the debit and the
\* SUCCESS update: the handler's outer `except Exception` answers 500
PushFails(h) ==
    /\ pc[h] = "commit"
    /\ req[h].kind \in {"airtime", "data"}
    /\ Finish(h, 500, "Failed to purchase")
    /\ SetLoc(h, [loc[h] EXCEPT !.error = Append(@, "push_balance_update")])
    /\ UNCHANGED <<balance, txns, revenue, nextId, premium, req, applied, tags>>
    /\ UNCHANGED <<plan_mismatch_logs, validated>>

\* vas_wallets.update_one of the debit raises (a storage error) after a
\* provider has vended: the handler's outer `except Exception` answers 500
DebitFails(h) ==
    /\ pc[h] = "debit"
    /\ req[h].kind \in {"airtime", "data"}
    /\ Finish(h, 500, "Failed to purchase")
    /\ SetLoc(h, [loc[h] EXCEPT !.error = Append(@, "vas_wallets.update_one")])
    /\ UNCHANGED <<balance, txns, revenue, nextId, premium, req, applied, tags,
                   plan_mismatch_logs, validated>>

\* generate_request_id returns an id that is already on file (its timestamp
\* has a resolution of one second and its suffix 8 hex digits): insert_one
\* raises DuplicateKeyError, which only the outer `except Exception` catches
OpenCollision(h) ==
    /\ pc[h] = "insert"
    /\ req[h].kind \in {"airtime", "data"}
    /\ \E i \in DOMAIN txns :
          /\ txns[i].ref # NoRef
          /\ TRUE \in DuplicateKey(txns, txns[i].ref)
          /\ SetLoc(h, [loc[h] EXCEPT !.request_id = txns[i].ref])
    /\ Finish(h, 500, "Failed to purchase")
    /\ UNCHANGED <<balance, txns, revenue, nextId, premium, req, applied, tags,
                   plan_mismatch_logs, validated>>

\* ------------------------------------------- delivered-plan validation
\* validate_delivered_plan of vas_purchase.py on its own

\* plan names: the descriptions a response carries and the names requested
PlanNames == {{"1gb"}, {"1gb", "30 days"}, {"2gb", "monthly"}, {}}

\* requested amounts, and the amounts a response reports: at the tolerance
\* on either side of the smaller request, and one beyond it
RequestedAmounts == {FaceAmount, 2 * FaceAmount}
DeliveredAmounts == {FaceAmount - PlanTolerance, FaceAmount + PlanTolerance,
                     FaceAmount + PlanTolerance + 1}

\* provider responses: none at all, or a dict with or without description,
\* vendAmount and payableAmount
ValidationResponses ==
    {NoResponse}
    \cup {[empty |-> FALSE, hasDescription |-> d # <<>>,
           description |-> IF d # <<>> THEN d[1] ELSE {},
           hasVendAmount |-> v # <<>>, vendAmount |-> IF v # <<>> THEN v[1] ELSE 0,
           hasPayableAmount |-> p # <<>>, payableAmount |-> IF p # <<>> THEN p[1] ELSE 0] :
              d \in {<<>>} \cup {<<n>> : n \in PlanNames},
              v \in {<<>>} \cup {<<a>> : a \in DeliveredAmounts},
              p \in {<<>>, <<FaceAmount>>}}

\* plan_match_result = validate_delivered_plan(api_response, data_plan_id,
\* data_plan_name, amount)
Validate ==
    /\ ~validated.returned
    /\ validated' = [validated EXCEPT
                        !.returned = TRUE,
                        !.matches = validate_delivered_plan(validated.api_response,
                                                            validated.requested_plan_name,
                                                            validated.requested_amount)]
    /\ UNCHANGED <<balance, txns, revenue, nextId, premium, pc, req, loc, resp, applied, tags,
                   plan_mismatch_logs>>

InitValidate ==
    /\ balance = InitBalance
    /\ txns = <<>>
    /\ revenue = <<>>
    /\ nextId = 1
    /\ premium = FALSE
    /\ pc = [h \in Handlers |-> "idle"]
    /\ req = [h \in Handlers |-> NoReq]
    /\ loc = [h \in Handlers |-> NoLoc]
    /\ resp = [h \in Handlers |-> NoResp]
    /\ applied = 0
    /\ tags = [t \in TagIds |-> NoTag]
    /\ plan_mismatch_logs = <<>>
    /\ validated \in {[api_response |-> r, requested_plan_name |-> n, requested_amount |-> a,
                        returned |-> FALSE, matches |-> FALSE] :
                           r \in ValidationResponses, n \in PlanNames, a \in RequestedAmounts}

SpecValidate == InitValidate /\ [][Validate]_vars

\* ------------------------------------------------------- specifications

\* all handlers
Next == \E h \in Handlers : Purchase(h) \/ Bill(h) \/ Webhook(h)

Spec == Init /\ [][Next]_vars

\* the purchase handlers alone
NextPurchase == \E h \in Handlers : Purchase(h)

\* purchases read no premium flag: it is fixed
InitPurchase == Init /\ premium = FALSE

SpecPurchase == InitPurchase /\ [][NextPurchase]_vars

\* webhook deliveries alone: without purchases there is nothing to confirm
Funding(h) ==
    \/ ReceiveWebhook(h)
    \/ CheckExisting(h)
    \/ FundRead(h)
    \/ FundInsert(h)
    \/ FundCredit(h)
    \/ FundRevenue(h)

NextWebhook == \E h \in Handlers : Funding(h)

SpecWebhook == Init /\ [][NextWebhook]_vars

\* webhook deliveries when a KYC verification payment is awaited: the row's
\* own transactionReference is the reference Monnify reports, or another one
InitKyc ==
    /\ balance = InitBalance
    /\ txns \in {<<KycRow(t, Min(ExtRefs))>> : t \in {NoRef, Min(ExtRefs)}}
    /\ revenue = <<>>
    /\ nextId = 1
    /\ premium \in BOOLEAN
    /\ pc = [h \in Handlers |-> "idle"]
    /\ req = [h \in Handlers |-> NoReq]
    /\ loc = [h \in Handlers |-> NoLoc]
    /\ resp = [h \in Handlers |-> NoResp]
    /\ applied = 0
    /\ tags = [t \in TagIds |-> NoTag]
    /\ plan_mismatch_logs = <<>>
    /\ validated = NoValidation

SpecKyc == InitKyc /\ [][NextWebhook]_vars

\* webhook deliveries whose wallet update can fail
NextFundingAbort == \E h \in Handlers : Funding(h) \/ FundAborts(h)

SpecFundingAbort == Init /\ [][NextFundingAbort]_vars

\* purchases and bill payments whose handler can stop at any point
NextCrash == \E h \in Handlers : Purchase(h) \/ Bill(h) \/ Crash(h) \/ PushFails(h) \/ DebitFails(h)

SpecCrash == InitPurchase /\ [][NextCrash]_vars

\* all handlers, with request ids that can repeat
NextDuplicate == \E h \in Handlers : Purchase(h) \/ Bill(h) \/ Webhook(h) \/ OpenCollision(h)

SpecDuplicate == Init /\ [][NextDuplicate]_vars

\* runs of the recovery job over the tags on file
NextRecovery == \E h \in Handlers : Recovery(h)

InitRecovery ==
    /\ balance = InitBalance
    /\ txns = <<>>
    /\ revenue = <<>>
    /\ nextId = 1
    /\ premium = FALSE
    /\ pc = [h \in Handlers |-> "idle"]
    /\ req = [h \in Handlers |-> NoReq]
    /\ loc = [h \in Handlers |-> NoLoc]
    /\ resp = [h \in Handlers |-> NoResp]
    /\ applied = 0
    /\ tags \in [TagIds -> {NoTag, PendingTag}]
    /\ plan_mismatch_logs = <<>>
    /\ validated = NoValidation

SpecRecovery == InitRecovery /\ [][NextRecovery]_vars

\* ------------------------------------------------------------- properties

Purchases == {h \in Handlers : req[h].kind \in PurchaseKinds}

Returned(h) == {k \in DOMAIN loc[h].calls : loc[h].calls[k].returned}

Taken(h) == {k \in DOMAIN loc[h].calls : loc[h].calls[k].accepted}

C1_DebitStep(h) ==
    /\ pc'[h] # pc[h]
    /\ req'[h].kind \in PurchaseKinds
    /\ (balance' # balance \/ loc'[h].wrote # loc[h].wrote)

C5_PurchaseIdempotent ==
    \A g, h \in Purchases :
        (g # h /\ req[g].action = req[h].action)
            => /\ ~(loc[g].txn # 0 /\ loc[h].txn # 0)
               /\ ~(loc[g].calls # <<>> /\ loc[h].calls # <<>>)
               /\ ~(loc[g].wrote /\ loc[h].wrote)

\* C8: a finished purchase whose Monnify call raised and whose Peyflex call
\* returned success has its row committed SUCCESS with provider 'peyflex'
\* and has debited the wallet.
C8_FallbackRecorded ==
    \A h \in Purchases :
        (/\ pc[h] = "done"
         /\ Len(loc[h].calls) = 2
         /\ ~loc[h].calls[1].returned
         /\ loc[h].calls[2].returned)
            => /\ Row(h).status = "SUCCESS"
               /\ Row(h).provider = "peyflex"
               /\ loc[h].wrote
               /\ resp[h].code = 200

\* C9: the first provider call of a purchase is to Monnify, a second call is
\* to Peyflex and is made only if the Monnify call raised, there is no third
\* call, and at most one call returns a successful vend.
C9_OrderedFailover ==
    \A h \in Purchases :
        /\ Len(loc[h].calls) <= 2
        /\ Len(loc[h].calls) >= 1 => loc[h].calls[1].provider = "monnify"
        /\ Len(loc[h].calls) = 2 => /\ loc[h].calls[2].provider = "peyflex"
                                    /\ ~loc[h].calls[1].returned
        /\ Cardinality(Returned(h)) <= 1

Webhooks == {h \in Handlers : req[h].kind = "webhook"}

\* deliveries of the funding webhook for reference ref and amount paid a:
\* validly signed, paid, for a resolved user
FundingDeliveries(ref, a) ==
    {h \in Webhooks : /\ req[h].ref = ref
                      /\ req[h].amountPaid = a
                      /\ req[h].signature = Hmac(SecretKey, BodyOf(req[h]))
                      /\ req[h].paid
                      /\ req[h].account}

FundingRows(ref) == {i \in DOMAIN txns : txns[i].type = "WALLET_FUNDING" /\ txns[i].ref = ref}

\* every funding delivery for reference ref carries the amount a: they are
\* deliveries of the same webhook
SamePayment(ref, a) ==
    \A b \in {req[h].amountPaid : h \in Webhooks} :
        FundingDeliveries(ref, b) # {} => b = a

\* the deliveries D of one webhook, once every one has been answered: one of
\* them credited the wallet, there is one WALLET_FUNDING row for the
\* reference, and the others were answered 'Already processed' without a
\* wallet write
CreditedOnce(D, ref) ==
    (D # {} /\ \A h \in D : pc[h] = "done")
        => /\ Cardinality({h \in D : loc[h].wrote}) = 1
           /\ Cardinality(FundingRows(ref)) = 1
           /\ \A h \in D : ~loc[h].wrote => resp[h].message = "Already processed"

PaidAmounts == {req[h].amountPaid : h \in Webhooks}

\* C2, as the claim states it: for every positive amountPaid, the deliveries
\* of one funding webhook are credited exactly once.
C2_PositiveAmountCreditedOnce ==
    \A ref \in ExtRefs : \A a \in PaidAmounts :
        (a > 0 /\ SamePayment(ref, a)) => CreditedOnce(FundingDeliveries(ref, a), ref)

\* C2, amended: when amountPaid exceeds the deposit fee, the deliveries of one
\* funding webhook are credited exactly once, in every interleaving; at no
\* time has a reference two WALLET_FUNDING rows or two credits.
C2_WebhookIdempotent ==
    /\ \A ref \in ExtRefs : \A a \in PaidAmounts :
          (a - DepositFee > 0 /\ SamePayment(ref, a))
              => CreditedOnce(FundingDeliveries(ref, a), ref)
    /\ \A ref \in ExtRefs :
          /\ Cardinality(FundingRows(ref)) <= 1
          /\ Cardinality({h \in Webhooks : req[h].ref = ref /\ loc[h].wrote}) <= 1

\* two deliveries of one payment were in service together; the one that lost
\* the insert was answered 'Already processed', the other credited the wallet
C2_Witness ==
    \E g, h \in FundingDeliveries(101, FundingAmount) :
        /\ pc[g] = "done" /\ loc[g].wrote /\ resp[g].message = "Wallet funded successfully"
        /\ pc[h] = "done" /\ ~loc[h].wrote /\ resp[h].message = "Already processed"
        /\ loc[h].wallet = InitBalance
        /\ balance = InitBalance + FundingAmount - DepositFee

\* C3: the balance is the initial balance plus the credits applied minus the
\* debits applied.
C3_NoLostUpdate == balance = InitBalance + applied

\* C4: no step writes FAILED to a Transaction whose status is SUCCESS.
C4_StatusMonotone ==
    [][\A i \in DOMAIN txns : txns[i].status = "SUCCESS" => txns'[i].status # "FAILED"]_vars

\* C6: a delivery whose signature is not the HMAC of its body under the shared
\* secret is answered 401 in its first step, which writes no Transaction, no
\* wallet balance and no revenue record; no other delivery is answered 401.
C6_SignatureEnforced ==
    /\ [](\A h \in Webhooks :
            pc[h] = "done" =>
                /\ resp[h].code = 401 <=> req[h].signature # Hmac(SecretKey, BodyOf(req[h]))
                /\ resp[h].code = 401 => (~loc[h].wrote /\ loc[h].txn = 0))
    /\ [][\A h \in Handlers :
            (/\ pc'[h] # pc[h]
             /\ req'[h].kind = "webhook"
             /\ req'[h].signature # Hmac(SecretKey, BodyOf(req'[h])))
                => /\ pc'[h] = "done"
                   /\ resp'[h].code = 401
                   /\ UNCHANGED <<balance, txns, revenue, applied>>]_vars

\* a delivery signed with another key and one carrying the signature of a
\* different body were both answered 401, and nothing was written
C6_Witness ==
    \E g, h \in Webhooks :
        /\ req[g].signature = Hmac(OtherKey, BodyOf(req[g]))
        /\ req[h].signature[1] = SecretKey /\ req[h].signature[2] # BodyOf(req[h])
        /\ resp[g].code = 401 /\ resp[h].code = 401
        /\ txns = <<>> /\ balance = InitBalance

\* C7: the wallet balance is never negative.
C7_BalanceNonNegative == balance >= 0

\* the reference of the row handler h is about to insert
InsertRef(h) ==
    CASE pc[h] = "insert" -> nextId
      [] pc[h] = "bill_insert" -> loc[h].request_id
      [] pc[h] = "fund_insert" -> req[h].ref
      [] OTHER -> NoRef

\* C10: no two rows of vas_transactions carry the same transactionReference,
\* and an insert of a reference that a row already carries ends the handler
\* with no row, balance or revenue written.
C10_OneRowPerReference ==
    /\ [](\A i, j \in DOMAIN txns :
            (txns[i].ref = txns[j].ref /\ txns[i].ref # NoRef) => i = j)
    /\ [][\A h \in Handlers :
            (/\ pc[h] \in {"insert", "bill_insert", "fund_insert"}
             /\ pc'[h] # pc[h]
             /\ InsertRef(h) # NoRef
             /\ \E i \in DOMAIN txns : txns[i].ref = InsertRef(h))
                => /\ pc'[h] = "done"
                   /\ UNCHANGED <<txns, balance, revenue, applied>>]_vars

\* a second delivery of a payment read the wallet before the first one's row
\* was there, reached the insert after it, and was turned away: the row of
\* the first delivery is the only one
C10_Witness ==
    /\ \E h \in Webhooks : /\ pc[h] = "done"
                           /\ loc[h].wallet = InitBalance
                           /\ loc[h].txn = 0
                           /\ resp[h].message = "Already processed"
                           /\ Cardinality(FundingRows(req[h].ref)) = 1
    /\ Len(txns) = 1

\* handlers that have ended, by a response or by stopping
Ended == {h \in Handlers : pc[h] \in {"done", "stopped"}}

\* C11: once the handler of a purchase or bill payment has ended, the row it
\* created carries a terminal status, FAILED or SUCCESS.
C11_NoStuckPending ==
    \A h \in Ended :
        (req[h].kind \in PurchaseKinds \cup {"bill"} /\ loc[h].txn # 0)
            => Row(h).status \in {"FAILED", "SUCCESS"}

\* no other request has arrived
RunsAlone(h) == \A g \in Handlers \ {h} : pc[g] = "idle"

\* the provider whose success the handler took
ProviderUsed(h) == loc[h].calls[CHOOSE k \in Taken(h) : TRUE].provider

NewPurchases == {h \in Handlers : req[h].kind \in {"airtime", "data"}}

\* C13: a purchase whose two provider calls both failed has a row that was
\* FAILED all along; once it has answered, the row's failure reason names
\* both providers' errors in place of the 'in progress' placeholder, the
\* wallet was not written and the answer is a 500 failure.
C13_AllProvidersFailed ==
    \A h \in NewPurchases :
        /\ (loc[h].txn # 0 /\ Taken(h) = {}) => Row(h).status = "FAILED"
        /\ (pc[h] = "done" /\ Len(loc[h].calls) = 2 /\ Taken(h) = {})
              => /\ Row(h).failureReason = <<"monnify", "peyflex">>
                 /\ Row(h).failureReason # InProgress
                 /\ ~loc[h].wrote
                 /\ resp[h].code = 500 /\ resp[h].message = "Purchase failed"

\* an airtime purchase that ran alone had both provider calls raise
C13_Witness ==
    \E h \in NewPurchases :
        /\ pc[h] = "done" /\ RunsAlone(h) /\ req[h].kind = "airtime"
        /\ Len(loc[h].calls) = 2 /\ Returned(h) = {}
        /\ Row(h).failureReason = <<"monnify", "peyflex">>
        /\ Row(h).status = "FAILED"
        /\ balance = InitBalance

\* the fee the claim names: nothing for a premium user, 30 otherwise
ClaimedFee == IF premium THEN 0 ELSE 30

FeeRecords(ref) ==
    {k \in DOMAIN revenue : revenue[k].type = "SERVICE_FEE" /\ revenue[k].relatedTransaction = ref}

\* the first delivery h of a funding webhook, served alone and answered:
\* the balance has grown by amountPaid - fee, the WALLET_FUNDING row of the
\* reference is SUCCESS and carries that amount, and there is one revenue
\* record of amount fee if fee > 0 and none otherwise
FundedBy(h) ==
    /\ resp[h].code = 200
    /\ balance = InitBalance + req[h].amountPaid - ClaimedFee
    /\ loc[h].txn # 0
    /\ Row(h).type = "WALLET_FUNDING" /\ Row(h).ref = req[h].ref
    /\ Row(h).status = "SUCCESS"
    /\ Row(h).amount = req[h].amountPaid - ClaimedFee
    /\ Cardinality(FeeRecords(req[h].ref)) = IF ClaimedFee > 0 THEN 1 ELSE 0
    /\ \A k \in FeeRecords(req[h].ref) : revenue[k].amount = ClaimedFee

FirstDeliveries ==
    {h \in Webhooks : /\ RunsAlone(h)
                      /\ pc[h] = "done"
                      /\ req[h].signature = Hmac(SecretKey, BodyOf(req[h]))
                      /\ req[h].paid /\ req[h].account
                      /\ req[h].amountPaid > 0}

\* C14, as the claim states it: every first delivery of a funding webhook
\* with a positive amountPaid credits amountPaid - fee.
C14_EveryAmountCredited == \A h \in FirstDeliveries : FundedBy(h)

\* C14, amended: a first delivery of a funding webhook whose amountPaid
\* exceeds the fee credits amountPaid - fee, inserts the row as SUCCESS and
\* records the fee as revenue if and only if the fee is positive.
C14_FundingCredit ==
    \A h \in FirstDeliveries : req[h].amountPaid - ClaimedFee > 0 => FundedBy(h)

\* a first delivery funded the wallet; the fee was recorded as revenue
\* exactly when the user is not premium
C14_Witness ==
    \E h \in FirstDeliveries :
        /\ req[h].amountPaid = FundingAmount
        /\ FundedBy(h)
        /\ premium => revenue = <<>>
        /\ ~premium => Len(revenue) = 1

DataPurchases == {h \in Handlers : req[h].kind = "data"}

\* provider calls of h that returned a response which passed, or failed,
\* delivered-plan validation
Passed(h) == {k \in DOMAIN loc[h].calls : loc[h].calls[k].returned /\ loc[h].calls[k].matches}

Rejected(h) == {k \in DOMAIN loc[h].calls : loc[h].calls[k].returned /\ ~loc[h].calls[k].matches}

\* C15: a data purchase none of whose provider responses passed
\* delivered-plan validation has written no balance and its row is FAILED;
\* once it has answered after its provider calls, the answer is a failure; and
\* no step of such a purchase changes the wallet balance.
C15_MismatchBlocksCommit ==
    /\ [](\A h \in DataPurchases :
            /\ (loc[h].txn # 0 /\ Passed(h) = {})
                  => (Row(h).status = "FAILED" /\ ~loc[h].wrote /\ ~loc[h].success)
            /\ (pc[h] = "done" /\ loc[h].calls # <<>> /\ Passed(h) = {})
                  => resp[h].code = 500)
    /\ [][\A h \in Handlers :
            (/\ req'[h].kind = "data"
             /\ pc'[h] # pc[h]
             /\ \A k \in DOMAIN loc'[h].calls :
                   ~(loc'[h].calls[k].returned /\ loc'[h].calls[k].matches))
                => balance' = balance]_vars

\* a data purchase ran alone; both providers returned success and both
\* responses failed validation
C15_Witness ==
    \E h \in DataPurchases :
        /\ RunsAlone(h) /\ pc[h] = "done"
        /\ Rejected(h) = {1, 2}
        /\ Row(h).status = "FAILED"
        /\ balance = InitBalance

\* a delivery that is validly signed and reports a completed payment
ValidPaid(r) == r.kind = "webhook" /\ r.signature = Hmac(SecretKey, BodyOf(r)) /\ r.paid

\* the AIRTIME and DATA rows a reference names, by request id or by
\* transaction reference
PurchaseRows(ref) ==
    {i \in DOMAIN txns : /\ txns[i].type \in {"AIRTIME", "DATA"}
                         /\ (txns[i].requestId = ref \/ txns[i].ref = ref)}

\* C16: a validly signed paid delivery whose reference matches an AIRTIME or
\* DATA row when the handler looks it up goes to the confirmation update and
\* to nothing else: the handler's steps insert no row and leave the wallet
\* balance and the revenue records as they are, and it answers after the
\* confirmation update without reaching any funding step.
C16_ConfirmationNeverCredits ==
    /\ [][\A h \in Handlers :
            (/\ pc[h] = "idle" /\ pc'[h] # "idle"
             /\ ValidPaid(req'[h])
             /\ PurchaseRows(req'[h].ref) # {})
                => /\ pc'[h] = "confirm"
                   /\ UNCHANGED <<balance, txns, revenue, applied>>]_vars
    /\ [][\A h \in Handlers :
            (pc[h] = "confirm" /\ pc'[h] # pc[h])
                => /\ pc'[h] = "done"
                   /\ Len(txns') = Len(txns)
                   /\ UNCHANGED <<balance, revenue, applied>>]_vars
    /\ [](\A h \in Webhooks :
            resp[h].message = "VAS confirmation processed"
                => (~loc[h].wrote /\ txns[loc[h].txn].type \in {"AIRTIME", "DATA"}
                    /\ FundingRows(req[h].ref) = {}))

\* a delivery with a funding-sized amount for the request id of an airtime
\* purchase was answered as a confirmation, after the purchase had debited
C16_Witness ==
    \E h \in Webhooks : \E g \in Purchases :
        /\ resp[h].message = "VAS confirmation processed"
        /\ req[h].amountPaid = FundingAmount /\ req[h].account
        /\ req[h].ref = loc[g].request_id
        /\ pc[g] = "done" /\ loc[g].wrote
        /\ balance = loc[g].wallet - req[g].selling_price
        /\ Len(txns) = 1

\* a delivery for which no user can be resolved: validly signed, paid, with
\* a positive amount
Unmatched(r) == ValidPaid(r) /\ r.amountPaid > 0 /\ ~r.account

\* C17, as the claim states it: no step of the handler of an unmatched
\* delivery writes a Transaction or the wallet, and its answer is 200.
C17_UnmatchedWritesNothing ==
    [][\A h \in Handlers :
          (pc'[h] # pc[h] /\ Unmatched(req'[h]))
              => /\ UNCHANGED <<balance, txns>>
                 /\ pc'[h] = "done" => resp'[h].code = 200]_vars

\* C17, amended: an unmatched delivery whose reference names no AIRTIME or
\* DATA row is answered 200 in its first step, which writes no Transaction,
\* no wallet balance and no revenue record.
C17_UnmatchedAcknowledged ==
    /\ [][\A h \in Handlers :
            (/\ pc[h] = "idle" /\ pc'[h] # "idle"
             /\ Unmatched(req'[h])
             /\ PurchaseRows(req'[h].ref) = {})
                => /\ pc'[h] = "done"
                   /\ resp'[h] = [code |-> 200, message |-> "Acknowledged but unprocessed"]
                   /\ UNCHANGED <<balance, txns, revenue, applied>>]_vars
    /\ [](\A h \in Webhooks :
            (pc[h] = "done" /\ Unmatched(req[h])) => (resp[h].code = 200 /\ ~loc[h].wrote))

\* an unmatched delivery was acknowledged while a purchase was in service,
\* and nothing but the purchase's row is in the ledger
C17_Witness ==
    \E h \in Webhooks : \E g \in Purchases :
        /\ Unmatched(req[h]) /\ req[h].ref \in ExtRefs
        /\ resp[h] = [code |-> 200, message |-> "Acknowledged but unprocessed"]
        /\ g < h /\ pc[g] = "primary"
        /\ Len(txns) = 1 /\ balance = InitBalance

\* a validly signed delivery whose paid amount is zero or negative
ZeroAmount(r) == r.kind = "webhook" /\ r.signature = Hmac(SecretKey, BodyOf(r)) /\ r.amountPaid <= 0

\* C18: no step of the handler of a validly signed delivery with a zero or
\* negative amount inserts or updates a Transaction or writes the wallet,
\* whatever its reference, and its answer is 200.
C18_ZeroAmountInert ==
    [][\A h \in Handlers :
          (pc'[h] # pc[h] /\ ZeroAmount(req'[h]))
              => /\ UNCHANGED <<balance, txns, revenue>>
                 /\ pc'[h] = "done" => resp'[h].code = 200]_vars

\* ---------------------------------------------------------------- C19
Recoveries == {h \in Handlers : req[h].kind = "recovery"}

\* the runs whose scan held tag t
Scanned(t) == {h \in Recoveries : \E k \in DOMAIN loc[h].results : loc[h].results[k].tag = t}

\* the runs that compensated tag t
Compensated(t) ==
    {h \in Recoveries : \E k \in DOMAIN loc[h].results :
                            loc[h].results[k] = [tag |-> t, status |-> "completed"]}

RECURSIVE SumOverage(_)
SumOverage(S) ==
    IF S = {} THEN 0
    ELSE LET t == Min(S) IN tags[t].overage * tags[t].credits + SumOverage(S \ {t})

Buyers == {h \in Handlers : req[h].kind \in PurchaseKinds \cup {"bill"}}

\* handler h has called an upstream provider
Vended(h) == loc[h].calls # <<>> \/ (req[h].kind = "bill" /\ loc[h].status # "none")

\* C20: every row of a purchase (airtime, data, bill) is inserted FAILED with
\* reason 'Transaction in progress', it is on file before its handler calls
\* a provider, and it becomes SUCCESS only once the vend and the wallet
\* debit of its handler are done.
C20_OpenBeforeVend ==
    [][/\ \A i \in DOMAIN txns' \ DOMAIN txns :
             txns'[i].type \in {"AIRTIME", "DATA", "BILL"}
                 => txns'[i].status = "FAILED" /\ txns'[i].failureReason = InProgress
       /\ \A h \in Buyers : (Vended(h)' /\ ~Vended(h)) => loc[h].txn # 0
       /\ \A i \in DOMAIN txns :
             (/\ txns[i].type \in {"AIRTIME", "DATA", "BILL"}
              /\ txns[i].status # "SUCCESS"
              /\ txns'[i].status = "SUCCESS")
                 => Vended(txns[i].owner) /\ loc[txns[i].owner].wrote]_vars

\* the same ordering for the handlers of vas_purchase.py alone
C20_NewHandlersOrdered ==
    [][/\ \A i \in DOMAIN txns' \ DOMAIN txns :
             req'[txns'[i].owner].kind \in {"airtime", "data"}
                 => txns'[i].status = "FAILED" /\ txns'[i].failureReason = InProgress
       /\ \A h \in NewPurchases : (Vended(h)' /\ ~Vended(h)) => loc[h].txn # 0]_vars

\* ---------------------------------------------------------------- C21
\* a purchase of this kind and amount is in flight: its handler is still in
\* service and its row is on file, not SUCCESS
InFlight(kind, amount) ==
    \E g \in Purchases :
        /\ pc[g] \notin {"idle", "done", "stopped"}
        /\ loc[g].txn # 0
        /\ req[g].kind = kind
        /\ req[g].amount = amount
        /\ txns[loc[g].txn].status # "SUCCESS"

\* C21: a purchase request that arrives while a purchase of the same type
\* and amount is in flight is answered 409 at once: it opens no row, calls
\* no provider and debits nothing.
C21_GuardRejectsDuplicate ==
    [][\A h \in Handlers :
          (/\ pc[h] = "idle" /\ pc'[h] # "idle"
           /\ req'[h].kind \in PurchaseKinds
           /\ InFlight(req'[h].kind, req'[h].amount))
              => /\ pc'[h] = "done"
                 /\ resp'[h].code = 409
                 /\ UNCHANGED <<balance, txns>>]_vars

\* ---------------------------------------------------------------- C22
\* C22: the debit of a purchase is computed from the balance as it is when
\* the debit is written, and is not made when that balance is below the
\* selling price.
C22_LateBalanceRecheck ==
    [][\A h \in NewPurchases :
          (loc'[h].wrote /\ ~loc[h].wrote)
              => /\ balance >= req[h].selling_price
                 /\ balance' = balance - req[h].selling_price]_vars

\* ---------------------------------------------------------------- C23
\* the balance push of purchase h raised
PushRaised(h) == \E k \in DOMAIN loc[h].error : loc[h].error[k] = "push_balance_update"

\* C23: a purchase whose balance push raised after the debit is still
\* committed: its row is SUCCESS and the debit stands.
C23_PushFailureIsolated ==
    \A h \in NewPurchases :
        (pc[h] = "done" /\ PushRaised(h))
            => /\ loc[h].wrote
               /\ txns[loc[h].txn].status = "SUCCESS"

\* ---------------------------------------------------------------- C24
\* the wallet debit of purchase h raised
DebitRaised(h) == \E k \in DOMAIN loc[h].error : loc[h].error[k] = "vas_wallets.update_one"

\* C24: when a provider has vended and the wallet debit then fails, the
\* failing step leaves a record of it in storage: a high-severity log for
\* the transaction, or the failure written on the transaction's row.
C24_DebitFailureEscalated ==
    [][\A h \in NewPurchases :
          (DebitRaised(h)' /\ ~DebitRaised(h))
              => \/ \E k \in DOMAIN plan_mismatch_logs' \ DOMAIN plan_mismatch_logs :
                       plan_mismatch_logs'[k].transaction_id = loc[h].txn
                 \/ txns'[loc[h].txn] # txns[loc[h].txn]]_vars

\* ---------------------------------------------------------------- C25
\* C25: once the Primary's vend is left IN_PROGRESS by the one requery, the
\* purchase makes no further provider call, and it ends with a record of the
\* anomaly in storage for its transaction.
C25_AmbiguousNotRetried ==
    [][\A h \in NewPurchases :
          /\ loc[h].ambiguous => Len(loc'[h].calls) = Len(loc[h].calls)
          /\ (loc'[h].ambiguous /\ pc'[h] = "done" /\ pc[h] # "done")
                => \E k \in DOMAIN plan_mismatch_logs' :
                      plan_mismatch_logs'[k].transaction_id = loc[h].txn]_vars

\* ---------------------------------------------------------------- C26
\* the records of plan_mismatch_logs for a transaction and a provider
MismatchLogs(txn, provider) ==
    {k \in DOMAIN plan_mismatch_logs :
        /\ plan_mismatch_logs[k].transaction_id = txn
        /\ plan_mismatch_logs[k].provider = provider}

\* C26: for every response of a data purchase that failed the delivered-plan
\* validation there is exactly one record in plan_mismatch_logs for the
\* transaction and the provider, flagged for investigation and refund.
C26_MismatchLogged ==
    \A h \in DataPurchases : \A k \in Rejected(h) :
        /\ Cardinality(MismatchLogs(loc[h].txn, loc[h].calls[k].provider)) = 1
        /\ \A j \in MismatchLogs(loc[h].txn, loc[h].calls[k].provider) :
              plan_mismatch_logs[j].requires_investigation /\ plan_mismatch_logs[j].requires_refund

\* ---------------------------------------------------------------- C27
\* row i is unresolved: PENDING, or FAILED with the 'in progress' reason
Unresolved(i) ==
    \/ txns[i].status = "PENDING"
    \/ txns[i].status = "FAILED" /\ txns[i].failureReason = InProgress

\* C27: the confirmation step of a validly signed paid webhook sets the
\* confirmation flag of the AIRTIME/DATA row it matched, promotes the row to
\* SUCCESS when it is unresolved, and leaves a SUCCESS row SUCCESS.
C27_ConfirmationPromotes ==
    [][\A h \in Handlers :
          (pc[h] = "confirm" /\ pc'[h] = "done" /\ ValidPaid(req[h]))
              => LET i == loc[h].txn
                 IN  /\ txns'[i].providerConfirmed
                     /\ Unresolved(i) => txns'[i].status = "SUCCESS"
                     /\ txns[i].status = "SUCCESS" => txns'[i].status = "SUCCESS"]_vars

\* ---------------------------------------------------------------- C28
\* the insert of handler h is refused by the unique index in this step
InsertRefused(h) ==
    /\ pc[h] \in {"insert", "fund_insert"}
    /\ pc'[h] = "done"
    /\ txns' = txns

\* C28: an insert refused by the unique index is answered specifically: on
\* the webhook path with 200 'Already processed' and no credit, on the
\* purchase path with a duplicate rejection (409, not a generic 500), and in
\* both without a provider call or a wallet write.
C28_DuplicateKeyHandled ==
    [][\A h \in Handlers :
          InsertRefused(h)
              => /\ UNCHANGED <<balance, revenue>>
                 /\ loc'[h].calls = <<>>
                 /\ IF req[h].kind = "webhook"
                    THEN resp'[h] = [code |-> 200, message |-> "Already processed"]
                    ELSE resp'[h].code = 409]_vars

\* ---------------------------------------------------------------- C29
MarginRecords == {k \in DOMAIN revenue : revenue[k].type = "VAS_MARGIN"}

\* the AIRTIME/DATA rows a margin record refers to
RelatedRows(k) ==
    {i \in DOMAIN txns : /\ txns[i].type \in {"AIRTIME", "DATA"}
                         /\ txns[i].requestId = revenue[k].relatedTransaction}

\* C29: every VAS_MARGIN record refers to one purchase row, which is SUCCESS
\* and whose margin is positive and is the amount recorded; no two margin
\* records refer to the same transaction; a purchase that ended without
\* SUCCESS has no margin record.
C29_RevenueOnlyCommitted ==
    /\ \A k \in MarginRecords :
          /\ Cardinality(RelatedRows(k)) = 1
          /\ \A i \in RelatedRows(k) :
                /\ txns[i].status = "SUCCESS"
                /\ req[txns[i].owner].margin > 0
                /\ revenue[k].amount = req[txns[i].owner].margin
          /\ \A j \in MarginRecords :
                revenue[j].relatedTransaction = revenue[k].relatedTransaction => j = k
    /\ \A h \in Purchases :
          (pc[h] = "done" /\ loc[h].txn # 0 /\ txns[loc[h].txn].status # "SUCCESS")
              => \A k \in MarginRecords : revenue[k].relatedTransaction # loc[h].request_id

\* one purchase with a positive margin is committed and has its record, and
\* another one with a positive margin has failed and has none
C29_Witness ==
    \E g, h \in Purchases :
        /\ pc[g] = "done" /\ pc[h] = "done"
        /\ req[g].margin > 0 /\ req[h].margin > 0
        /\ loc[g].txn # 0 /\ loc[h].txn # 0
        /\ txns[loc[g].txn].status = "SUCCESS"
        /\ txns[loc[h].txn].status = "FAILED"
        /\ \E k \in MarginRecords : revenue[k].relatedTransaction = loc[g].request_id
        /\ Cardinality(MarginRecords) = 1

\* ---------------------------------------------------------------- C30
\* costPrice >= 0.8 * 2 * expectedCost, with expectedCost 0.99 * amount for
\* airtime and amount for data
AtEmergencyCost(r) ==
    IF r.kind = "data"
    THEN 10 * r.cost_price >= 16 * r.amount
    ELSE 1000 * r.cost_price >= 1584 * r.amount

\* the tags created for the transaction of purchase h
TagsOf(h) ==
    {t \in TagIds : tags[t].status # "none" /\ tags[t].transaction = loc[h].request_id}

NoCandidate(plan_id, provider) ==
    /\ ExactTranslation(plan_id, provider) = NoCode
    /\ translate_plan_code_by_pattern(plan_id, provider) = plan_id

\* C31: a provider whose catalogue does not list the plan id, and for which
\* translation yields no candidate, is sent no purchase request and counts
\* as failed, so that the other provider is tried; and a plan code sent to a
\* provider is always one of that provider's own codes.
C31_UntranslatableSkipped ==
    \A h \in DataPurchases :
        /\ \A k \in DOMAIN loc[h].calls :
              LET call == loc[h].calls[k]
              IN  /\ (req[h].plan_id \notin CodesOf(call.provider)
                        /\ NoCandidate(req[h].plan_id, call.provider))
                         => (call.plan_code = NoCode /\ ~call.returned)
                  /\ call.plan_code # NoCode => call.plan_code \in CodesOf(call.provider)
        /\ (pc[h] = "done" /\ Len(loc[h].calls) >= 1 /\ loc[h].calls[1].plan_code = NoCode)
              => Len(loc[h].calls) = 2

\* ---------------------------------------------------------------- C32
\* the delivery reports a completed payment: the event is
\* SUCCESSFUL_TRANSACTION, or the payment status is PAID (in whatever letter
\* case, the handler upper-cases it) and completed is set
ReportsPayment(r) ==
    \/ r.event.eventType = "SUCCESSFUL_TRANSACTION"
    \/ (r.event.paymentStatus \in {"PAID", "paid"} /\ r.event.completed)

\* C32: a validly signed delivery that does not report a completed payment
\* is answered 200 in its first step, which inserts and updates no
\* Transaction and writes no wallet balance and no revenue record.
C32_NonPaidInert ==
    /\ [][\A h \in Handlers :
            (/\ pc[h] = "idle" /\ pc'[h] # "idle"
             /\ req'[h].kind = "webhook"
             /\ req'[h].signature = Hmac(SecretKey, BodyOf(req'[h]))
             /\ ~ReportsPayment(req'[h]))
                => /\ pc'[h] = "done"
                   /\ resp'[h].code = 200
                   /\ UNCHANGED <<balance, txns, revenue, applied>>]_vars
    /\ [](\A h \in Webhooks :
            (req[h].signature = Hmac(SecretKey, BodyOf(req[h])) /\ ~ReportsPayment(req[h]))
                => (~loc[h].wrote /\ loc[h].txn = 0))

\* a payment funded the wallet, and a delivery for the same reference with
\* status PAID that is not completed was acknowledged and changed nothing
C32_Witness ==
    \E g, h \in Webhooks :
        /\ pc[g] = "done" /\ loc[g].wrote
        /\ req[h].ref = req[g].ref
        /\ req[h].event = Event("", "PAID", FALSE)
        /\ resp[h] = [code |-> 200, message |-> "Webhook received"]
        /\ Len(txns) = 1
        /\ balance = InitBalance + req[g].amountPaid - DepositFee

\* ---------------------------------------------------------------- C33
\* the amount a response reports: vendAmount, else payableAmount, else 0
DeliveredAmount(r) ==
    IF r.hasVendAmount THEN r.vendAmount
    ELSE IF r.hasPayableAmount THEN r.payableAmount ELSE 0

\* the requested name and the description of the response have a term of
\* the fixed list in common
ShareKeyTerm(requested_name, r) ==
    /\ r.hasDescription
    /\ \E term \in {"1gb", "2gb", "500mb", "230mb", "daily", "weekly", "monthly",
                      "7 days", "30 days"} :
          term \in requested_name /\ term \in r.description

\* C33: validate_delivered_plan returns matches = true exactly when the
\* delivered amount is within 50 of the requested amount and the requested
\* and delivered names share a key term; for no response it returns false.
C33_ValidationResult ==
    validated.returned
        => LET r == validated.api_response
               d == DeliveredAmount(r) - validated.requested_amount
           IN  /\ validated.matches <=> (/\ ~r.empty
                                         /\ d <= 50 /\ -d <= 50
                                         /\ ShareKeyTerm(validated.requested_plan_name, r))
               /\ r.empty => ~validated.matches

\* a response 50 above the requested amount whose description shares one
\* term with the requested name was found to match
C33_Witness ==
    /\ validated.returned /\ validated.matches
    /\ validated.api_response.vendAmount = validated.requested_amount + 50
    /\ validated.requested_plan_name = {"1gb", "30 days"}
    /\ validated.api_response.description = {"1gb"}

\* ---------------------------------------------------------------- C34
\* C34: a purchase that has debited the wallet and whose row is SUCCESS is
\* answered 200 once its handler has answered.
C34_ResponseAgreesWithLedger ==
    \A h \in Purchases :
        (/\ pc[h] = "done"
         /\ loc[h].wrote
         /\ loc[h].txn # 0
         /\ txns[loc[h].txn].status = "SUCCESS")
            => resp[h].code = 200

\* ---------------------------------------------------------------- C35
SuccessfulFunding(ref) == {i \in FundingRows(ref) : txns[i].status = "SUCCESS"}

Credited(ref) ==
    \E h \in Handlers : req[h].kind = "webhook" /\ req[h].ref = ref /\ loc[h].wrote

Delivering(ref) == \E h \in InService : req[h].kind = "webhook" /\ req[h].ref = ref

\* C35: once no delivery of a payment reference is in service, the ledger
\* holds a SUCCESS WALLET_FUNDING row for the reference exactly if the
\* wallet was credited for it.
C35_RowAndCreditPaired ==
    \A ref \in ExtRefs \cup MonnifyKnows :
        ~Delivering(ref) => (SuccessfulFunding(ref) # {} <=> Credited(ref))

\* ---------------------------------------------------------------- C36
\* rows of a KYC verification that the payment reference ref pays for
KycRowsPaidBy(ref) ==
    {i \in DOMAIN txns : /\ txns[i].type = "KYC_VERIFICATION"
                         /\ (txns[i].monnifyTransactionReference = ref \/ txns[i].ref = ref)}

\* handlers that were given a valid, paid delivery of at least the KYC fee
\* with no account reference, for a reference a KYC row waits for
KycPayments ==
    {h \in Webhooks : /\ req[h].signature = Hmac(SecretKey, BodyOf(req[h]))
                      /\ req[h].paid
                      /\ req[h].amountPaid >= KycFee
                      /\ ~req[h].account
                      /\ KycRowsPaidBy(req[h].ref) # {}}

\* C36: a payment matched to a pending KYC verification sets the KYC row
\* SUCCESS, records 70 of revenue, leaves the wallet as it was and creates no
\* WALLET_FUNDING row.
C36_KycPaymentsDoNotFund ==
    \A h \in KycPayments :
        pc[h] = "done"
            => /\ \A i \in KycRowsPaidBy(req[h].ref) : txns[i].status = "SUCCESS"
               /\ \E j \in DOMAIN revenue : /\ revenue[j].amount = KycFee
                                             /\ revenue[j].relatedTransaction = req[h].ref
               /\ ~loc[h].wrote
               /\ \A i \in DOMAIN txns : txns[i].type = "WALLET_FUNDING" => txns[i].owner # h

\* ---------------------------------------------------------------- C37
\* the provider calls of a data purchase that returned a response without
\* a 'description' field
Undescribed(h) ==
    {i \in DOMAIN loc[h].calls : /\ loc[h].calls[i].returned
                                 /\ ~loc[h].calls[i].api_response.hasDescription}

\* C37: validate_delivered_plan answers matches = false for a response
\* without 'description', whatever plan and amount were requested; in
\* buy_data such a response is never taken as a success, and a purchase
\* whose last provider call returned one does not debit the wallet and does
\* not set its row SUCCESS.
C37_NoDescriptionNeverPasses ==
    /\ \A r \in ValidationResponses : \A n \in PlanNames : \A a \in RequestedAmounts :
           ~r.hasDescription => ~validate_delivered_plan(r, n, a)
    /\ \A h \in Purchases :
           req[h].kind = "data" =>
              \A i \in Undescribed(h) :
                 /\ ~loc[h].calls[i].matches
                 /\ ~loc[h].calls[i].accepted
                 /\ i = Len(loc[h].calls)
                       => /\ ~loc[h].success
                          /\ ~loc[h].wrote
                          /\ loc[h].txn # 0 => txns[loc[h].txn].status # "SUCCESS"

C37_Witness ==
    \E h \in Purchases :
        /\ req[h].kind = "data"
        /\ pc[h] = "done"
        /\ Len(loc[h].calls) = 2
        /\ 2 \in Undescribed(h)
        /\ loc[h].calls[2].provider = "peyflex"
        /\ loc[h].txn # 0
        /\ txns[loc[h].txn].status = "FAILED"
        /\ balance = InitBalance

\* ---------------------------------------------------------------- C38
\* the largest plan amount for which the detection is evaluated
MaxDataAmount == 200

\* C38: with selling price = cost price = amount the emergency detection is
\* false for every amount above zero; a data purchase is never flagged, gets
\* no emergency tag and no revenue record.
C38_DataNeverEmergency ==
    /\ \A a \in 1..MaxDataAmount :
           \A pr \in DataPricingResults(a) :
              /\ pr.selling_price = a /\ pr.cost_price = a /\ pr.margin = 0
              /\ ~is_emergency_pricing("data", a, pr.cost_price)
    /\ \A h \in Purchases :
           req[h].kind = "data"
              => /\ ~loc[h].is_emergency_pricing
                 /\ loc[h].txn # 0
                       => /\ TagsOf(h) = {}
                          /\ \A k \in DOMAIN revenue :
                                revenue[k].relatedTransaction # loc[h].request_id

C38_Witness ==
    \E h \in Purchases :
        /\ req[h].kind = "data"
        /\ req[h].amount > 0
        /\ req[h].cost_price = req[h].amount
        /\ pc[h] = "done"
        /\ loc[h].wrote
        /\ loc[h].txn # 0
        /\ txns[loc[h].txn].status = "SUCCESS"
        /\ TagsOf(h) = {}
        /\ revenue = <<>>

\* ---------------------------------------------------------------- C39
\* a correctly signed, paid delivery for a resolved user whose amount does
\* not exceed the deposit fee
SmallFunding(r) ==
    /\ r.kind = "webhook"
    /\ r.signature = Hmac(SecretKey, BodyOf(r))
    /\ r.paid
    /\ r.account
    /\ r.amountPaid > 0
    /\ r.amountPaid - DepositFee <= 0

SmallFundings == {h \in Handlers : SmallFunding(req[h])}

TooSmall == [code |-> 400, message |-> "Amount too small to process"]

\* C39: no step of a funding delivery whose amountPaid minus the fee is not
\* positive changes the transactions, the balance or the revenue records;
\* unless the reference was funded by another delivery, it is answered
\* 'Amount too small to process', first delivery and re-delivery alike.
C39_SmallFundingLeavesNoTrace ==
    /\ [](\A h \in SmallFundings :
            /\ ~loc[h].wrote
            /\ \A i \in DOMAIN txns : txns[i].owner # h
            /\ (pc[h] = "done" /\ FundingRows(req[h].ref) = {}) => resp[h] = TooSmall)
    /\ [][\A h \in Handlers :
            (SmallFunding(req'[h]) /\ pc'[h] # pc[h])
                => /\ txns' = txns
                   /\ balance' = balance
                   /\ revenue' = revenue
                   /\ applied' = applied]_vars

\* a delivery of exactly the fee and its re-delivery are both refused and the
\* ledger is empty
C39_Witness ==
    \E g, h \in SmallFundings :
        /\ g # h
        /\ req[g].ref = req[h].ref
        /\ req[g].amountPaid = VAS_TRANSACTION_FEE /\ req[h].amountPaid = VAS_TRANSACTION_FEE
        /\ pc[g] = "done" /\ pc[h] = "done"
        /\ resp[g] = TooSmall /\ resp[h] = TooSmall
        /\ txns = <<>>
        /\ revenue = <<>>
        /\ balance = InitBalance

====
